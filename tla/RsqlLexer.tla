----------------------------- MODULE RsqlLexer -----------------------------
(***************************************************************************)
(* The lexer of the filter language (rsql/lex.go), one action per branch   *)
(* of next, readOp, readQuoted and readBare, and the quoting of a value by *)
(* literal (rsql/canonical.go), whose output the lexer must be able to     *)
(* read.                                                                   *)
(*                                                                         *)
(* A rune is one character, except "nbsp", which stands for the white      *)
(* space unicode.IsSpace knows beyond blank, tab and newline, and "a",     *)
(* which stands for the letters.  The position a token carries is left     *)
(* out: only error messages use it.                                        *)
(***************************************************************************)
EXTENDS Naturals, Sequences, SequencesExt

CONSTANTS
    Raw,        \* expressions as a client may send them, sequences of runes
    Literals    \* values Canonical may have to render, sequences of runes

Reserved == {"\"", "'", "(", ")", ";", ",", "=", "!", "~", "<", ">"}

IsSpace(r) == r \in {" ", "nbsp"}

IsLetter(r) == r = "a"

Punctuation == {"(", ")", ";", ","}

Runes == Reserved \cup {"a", " ", "nbsp", "\\"}

ASSUME RunesAssumption == Raw \cup Literals \subseteq Seq(Runes)

-----------------------------------------------------------------------------
(* Rendering a value. *)

\* strings.NewReplacer of literal: a backslash and a double quote get a
\* backslash before them.
Escaped(v) ==
    FlattenSeq([i \in 1 .. Len(v) |->
                  IF v[i] \in {"\\", "\""} THEN <<"\\", v[i]>> ELSE <<v[i]>>])

\* literal without its replacer.
LiteralUnescaped(v) ==
    IF ToSet(v) \cap (Reserved \cup {" "}) = {} THEN v ELSE <<"\"">> \o v \o <<"\"">>

Literal(v) ==
    IF ToSet(v) \cap (Reserved \cup {" "}) = {}
    THEN v
    ELSE <<"\"">> \o Escaped(v) \o <<"\"">>

\* What Canonical may write right behind a value: nothing, the separator of
\* the group the comparison is in, the comma of an argument list, or the
\* parenthesis that ends either.
Followers == {<<>>, <<";">>, <<",">>, <<")">>}

-----------------------------------------------------------------------------
VARIABLES
    value,  \* the value src renders and what follows it, or None
    src,    \* lexer.src
    pos,    \* lexer.pos
    mode,   \* "next" between two tokens, "word", "quoted", "bare" inside one,
            \* "end" after tokEOF, "error"
    quote,  \* the quote readQuoted looks for
    text,   \* the strings.Builder of the token being read
    toks    \* the tokens returned so far, records of kind and text

vars == <<value, src, pos, mode, quote, text, toks>>

None == [v |-> <<>>, after |-> <<>>, known |-> FALSE]

Init ==
    /\ \/ value = None /\ src \in Raw
       \/ \E v \in Literals, f \in Followers :
            /\ value = [v |-> v, after |-> f, known |-> TRUE]
            /\ src = Literal(v) \o f
    /\ pos = 1
    /\ mode = "next"
    /\ quote = ""
    /\ text = <<>>
    /\ toks = <<>>

More == pos <= Len(src)

Peek == src[pos]

\* The next rune but one is there and is r.
Then(r) == pos < Len(src) /\ src[pos + 1] = r

Emit(kind, t, n) ==
    /\ toks' = Append(toks, [kind |-> kind, text |-> t])
    /\ pos' = pos + n
    /\ mode' = "next"
    /\ text' = <<>>
    /\ UNCHANGED <<value, src, quote>>

Fail ==
    /\ mode' = "error"
    /\ UNCHANGED <<value, src, pos, quote, text, toks>>

Enter(m, n) ==
    /\ mode' = m
    /\ pos' = pos + n
    /\ UNCHANGED <<value, src, text, toks>>

Take(r, n) ==
    /\ text' = Append(text, r)
    /\ pos' = pos + n
    /\ UNCHANGED <<value, src, mode, quote, toks>>

\* readBare and readQuoted: a backslash makes the next rune part of the value,
\* and is an error when there is none.
Escape ==
    /\ Peek = "\\"
    /\ IF pos < Len(src) THEN Take(src[pos + 1], 2) ELSE Fail

-----------------------------------------------------------------------------
(* next *)

SkipSpace ==
    /\ mode = "next" /\ More /\ IsSpace(Peek)
    /\ pos' = pos + 1
    /\ UNCHANGED <<value, src, mode, quote, text, toks>>

EndOfInput ==
    /\ mode = "next" /\ ~More
    /\ mode' = "end"
    /\ UNCHANGED <<value, src, pos, quote, text, toks>>

Punctuate ==
    /\ mode = "next" /\ More /\ Peek \in Punctuation
    /\ Emit("punct", <<Peek>>, 1)

(* readOp *)

Bang ==
    /\ mode = "next" /\ More /\ Peek = "!"
    /\ IF Then("=") THEN Emit("op", <<"!", "=">>, 2) ELSE Fail

Angle ==
    /\ mode = "next" /\ More /\ Peek \in {"<", ">"}
    /\ IF Then("=") THEN Emit("op", <<Peek, "=">>, 2) ELSE Emit("op", <<Peek>>, 1)

\* "==" is an operator of its own, anything else starts "=word=".
Equals ==
    /\ mode = "next" /\ More /\ Peek = "="
    /\ IF Then("=") THEN Emit("op", <<"=", "=">>, 2)
                    ELSE Enter("word", 1) /\ UNCHANGED quote

Word ==
    /\ mode = "word"
    /\ IF ~More THEN Fail
       ELSE IF Peek = "=" THEN Emit("op", <<"=">> \o text \o <<"=">>, 1)
       ELSE IF IsLetter(Peek) THEN Take(Peek, 1)
       ELSE Fail

(* readQuoted *)

OpenQuote ==
    /\ mode = "next" /\ More /\ Peek \in {"\"", "'"}
    /\ quote' = Peek
    /\ Enter("quoted", 1)

Quoted ==
    /\ mode = "quoted"
    /\ \/ ~More /\ Fail
       \/ More /\ Escape
       \/ More /\ Peek = quote /\ Emit("value", text, 1)
       \/ More /\ Peek \notin {"\\", quote} /\ Take(Peek, 1)

(* readBare *)

\* A bare value that starts behind its first rune.
OpenBarePast ==
    /\ mode = "next" /\ More
    /\ ~IsSpace(Peek)
    /\ Peek \notin Reserved \ {"~"}
    /\ Enter("bare", 1) /\ UNCHANGED quote

OpenBare ==
    /\ mode = "next" /\ More
    /\ ~IsSpace(Peek)
    /\ Peek \notin Reserved \ {"~"}
    /\ Enter("bare", 0) /\ UNCHANGED quote

BareEnds == IF More THEN IsSpace(Peek) \/ Peek \in Reserved ELSE TRUE

Bare ==
    /\ mode = "bare"
    /\ \/ More /\ Escape
       \/ ~BareEnds /\ Peek # "\\" /\ Take(Peek, 1)
       \/ BareEnds /\ IF text = <<>> THEN Fail ELSE Emit("value", text, 0)

Stopped ==
    /\ mode \in {"end", "error"}
    /\ UNCHANGED vars

Next ==
    \/ SkipSpace \/ EndOfInput \/ Punctuate
    \/ Bang \/ Angle \/ Equals \/ Word
    \/ OpenQuote \/ Quoted
    \/ OpenBare \/ Bare
    \/ Stopped

Spec == Init /\ [][Next]_vars

-----------------------------------------------------------------------------
\* The tokens the rendering of value stands for.
Expected ==
    <<[kind |-> "value", text |-> value.v]>>
        \o [i \in DOMAIN value.after |-> [kind |-> "punct", text |-> <<value.after[i]>>]]

\* The values literal renders in a form the lexer reads back: those it quotes
\* (a reserved rune or a blank makes it), and those without a backslash and
\* without white space other than blank, tab and newline.  The empty value is
\* not one of them.
Ordinary(v) ==
    \/ ToSet(v) \cap (Reserved \cup {" "}) # {}
    \/ v # <<>> /\ ToSet(v) \cap {"\\", "nbsp"} = {}

(* What Canonical writes for an ordinary value (canonical.go:54-65) is     *)
(* read back by the lexer as exactly that value, whatever follows it: the  *)
(* escapes that literal adds are the ones readQuoted takes away, and a     *)
(* bare value stops where the separator starts.                            *)
OrdinaryReadable ==
    value.known /\ Ordinary(value.v) =>
        /\ mode # "error"
        /\ mode = "end" => toks = Expected

\* The first n runes without the white space.
Unspaced(n) ==
    FlattenSeq([i \in 1..n |-> IF IsSpace(src[i]) THEN <<>> ELSE <<src[i]>>])

(* An expression with neither quotes nor escapes that is lexed to the end  *)
(* is nothing but its tokens and white space: no rune is lost, none is     *)
(* read twice and none changes (lex.go:41-175).                            *)
Verbatim ==
    mode = "end" /\ ToSet(src) \cap {"\\", "\"", "'"} = {} =>
        FlattenSeq([i \in DOMAIN toks |-> toks[i].text])
            = Unspaced(Len(src))

=============================================================================
