------------------------------ MODULE RsqlProofs ------------------------------
(***************************************************************************)
(* Of the lexer: that it loses, repeats and changes no rune of an          *)
(* expression without quotes and escapes, and that it reads back every     *)
(* value literal renders, but for those literal leaves bare and the lexer  *)
(* cannot read: for all expressions and values, of any length.  Its        *)
(* invariant has one part for each.  Kept says that the tokens and the     *)
(* text being read are the runes behind pos, without white space.  ReadBack*)
(* says how far a rendered value has been read.                            *)
(*                                                                         *)
(* Of All, Any and Rewrite: that a filter selects what was asked for and   *)
(* keeps its shape, for all filters, predicates and rewriters and any      *)
(* number of calls.  That the functions which are recursive over trees     *)
(* exist, and that what holds of a group when it holds of its operands     *)
(* holds of all trees, is shown with the least level at which it would     *)
(* fail.                                                                   *)
(*                                                                         *)
(* Of a filter: that the document for MongoDB finds what the filter asks   *)
(* for.  It needs that Parse reads nodes of few levels, since the          *)
(* operators on trees are functions on the nodes with so many; that is     *)
(* shown from the end of the tokens to their beginning, by the weight of   *)
(* what is read.                                                           *)
(***************************************************************************)
EXTENDS RsqlLexer, RsqlTree, RsqlFilter, Flattening, TLAPS

-----------------------------------------------------------------------------
(***************************************************************************)
(* The lexer: its invariant.                                               *)
(***************************************************************************)
TokenType == [kind : {"op", "punct", "value"}, text : Seq(Runes)]

Types ==
    /\ src \in Seq(Runes) /\ pos \in 1..(Len(src) + 1)
    /\ mode \in {"next", "word", "quoted", "bare", "end", "error"}
    /\ text \in Seq(Runes) /\ toks \in Seq(TokenType)
    /\ mode \in {"next", "end"} => text = <<>>
    /\ mode = "end" => pos = Len(src) + 1

TextsOf(ts) == [i \in DOMAIN ts |-> ts[i].text]

Plain == ToSet(src) \cap {"\\", "\"", "'"} = {}

\* What was read, in tokens and of the one at hand; a word is behind its "=".
Read(m, ts, t) ==
    IF m = "word" THEN (FlattenSeq(TextsOf(ts)) \o <<"=">>) \o t ELSE FlattenSeq(TextsOf(ts)) \o t

Kept == (Plain /\ mode # "error") => mode # "quoted" /\ Read(mode, toks, text) = Unspaced(pos - 1)

DoubleQuote == "\""

\* The first k runes of a value, escaped.
EscapedTo(v, k) ==
    FlattenSeq([i \in 1..k |-> IF v[i] \in {"\\", "\""} THEN <<"\\", v[i]>> ELSE <<v[i]>>])

IsQuoted(v) == ToSet(v) \cap (Reserved \cup {" "}) # {}

\* Where the value ends in src.
Behind(v) == Len(Literal(v)) + 1

ValueToken(v) == [kind |-> "value", text |-> v]

Tokenised(v, f) ==
    <<ValueToken(v)>> \o [i \in DOMAIN f |-> [kind |-> "punct", text |-> <<f[i]>>]]

Known ==
    value.known =>
        /\ value.v \in Literals /\ value.after \in Followers
        /\ src = Literal(value.v) \o value.after

Begun == mode = "next" /\ pos = 1 /\ text = <<>> /\ toks = <<>>

InQuotes(v) ==
    /\ IsQuoted(v) /\ mode = "quoted" /\ quote = DoubleQuote /\ toks = <<>>
    /\ \E k \in 0..Len(v) : text = SubSeq(v, 1, k) /\ pos = Len(EscapedTo(v, k)) + 2

InBare(v) ==
    /\ ~IsQuoted(v) /\ mode = "bare" /\ toks = <<>>
    /\ \E k \in 0..Len(v) : text = SubSeq(v, 1, k) /\ pos = k + 1

ValueRead(v) == mode = "next" /\ text = <<>> /\ toks = <<ValueToken(v)>> /\ pos = Behind(v)

AllRead(v, f) == mode \in {"next", "end"} /\ toks = Tokenised(v, f) /\ pos = Len(src) + 1

ReadBack ==
    (value.known /\ Ordinary(value.v)) =>
        \/ Begun \/ InQuotes(value.v) \/ InBare(value.v)
        \/ ValueRead(value.v) \/ AllRead(value.v, value.after)

IInv == Types /\ Kept /\ Known /\ ReadBack

-----------------------------------------------------------------------------
(***************************************************************************)
(* Runes and texts.                                                        *)
(***************************************************************************)

LEMMA RuneLemma ==
    /\ \A r \in Reserved : r \in Runes /\ ~IsSpace(r) /\ r # "\\" /\ ~IsLetter(r)
    /\ \A r \in Punctuation : r \in Reserved \ {"~"} /\ r \notin {"<", ">", "!", "=", "\"", "'"}
    /\ {"\"", "'", "=", "!", "<", ">"} \subseteq Reserved
    /\ \A r : IsLetter(r) => r \in Runes /\ ~IsSpace(r) /\ r # "\\" /\ r \notin Reserved
BY DEF Reserved, Runes, IsSpace, IsLetter, Punctuation

LEMMA PairLemma ==
    ASSUME NEW x \in Runes, NEW y \in Runes
    PROVE  <<x>> \o <<y>> = <<x, y>>
<1>1. PICK a \in Seq(Runes) : a = <<x>> /\ Len(a) = 1 /\ a[1] = x
  <2>1. <<x>> \in Seq(Runes)
    OBVIOUS
  <2> QED BY <2>1
<1>2. PICK b \in Seq(Runes) : b = <<y>> /\ Len(b) = 1 /\ b[1] = y
  <2>1. <<y>> \in Seq(Runes)
    OBVIOUS
  <2> QED BY <2>1
<1>3. PICK d \in Seq(Runes) : d = <<x, y>> /\ Len(d) = 2 /\ d[1] = x /\ d[2] = y
  <2>1. <<x, y>> \in Seq(Runes)
    OBVIOUS
  <2> QED BY <2>1
<1> DEFINE c == a \o b
<1>4. /\ c \in Seq(Runes) /\ Len(c) = Len(a) + Len(b)
      /\ \A i \in 1..(Len(a) + Len(b)) : c[i] = IF i =< Len(a) THEN a[i] ELSE b[i - Len(a)]
  BY ConcatProperties
<1> HIDE DEF c
<1>5. Len(c) = 2 /\ c[1] = x /\ c[2] = y
  BY <1>1, <1>2, <1>4
<1>6. \A i \in 1..Len(c) : c[i] = d[i]
  <2>1. \A i \in 1..Len(c) : i = 1 \/ i = 2
    BY <1>5
  <2> QED BY <1>3, <1>5, <2>1
<1>7. c = d
  BY <1>3, <1>4, <1>5, <1>6, SeqEqual
<1> QED BY <1>1, <1>2, <1>3, <1>7 DEF c

LEMMA PeekLemma ==
    ASSUME Types, More
    PROVE  /\ pos \in 1..Len(src) /\ Peek \in Runes /\ pos + 1 \in 1..(Len(src) + 1)
           /\ pos \in Nat /\ pos - 1 \in Nat /\ pos - 1 \in 0..Len(src) /\ Len(src) \in Nat
           /\ pos + 1 =< Len(src) + 1 /\ (pos + 1) - 1 = pos
           /\ Plain => Peek \notin {"\\", "\"", "'"}
<1>1. pos \in 1..Len(src) /\ src \in Seq(Runes) /\ Len(src) \in Nat
  BY DEF Types, More
<1>3. /\ pos + 1 \in 1..(Len(src) + 1)
      /\ pos \in Nat /\ pos - 1 \in Nat /\ pos - 1 \in 0..Len(src)
      /\ pos + 1 =< Len(src) + 1 /\ (pos + 1) - 1 = pos
  BY <1>1
<1>2. Peek \in Runes /\ Peek \in ToSet(src)
  BY <1>1 DEF Peek, ToSet
<1> QED BY <1>1, <1>2, <1>3 DEF Plain

\* The sequences of a row, put one behind the other: one more each time.
Row(p, n) == [i \in 1..n |-> p[i]]

LEMMA RowLemma ==
    ASSUME NEW S, NEW N \in Nat, NEW p \in [1..N -> Seq(S)]
    PROVE  /\ FlattenSeq(Row(p, 0)) = <<>>
           /\ \A n \in 0..N : FlattenSeq(Row(p, n)) \in Seq(S)
           /\ \A n \in 1..N : FlattenSeq(Row(p, n)) = FlattenSeq(Row(p, n - 1)) \o p[n]
<1> DEFINE row(n) == Row(p, n)
<1>2. ASSUME NEW n \in 0..N
      PROVE  row(n) \in Seq(Seq(S)) /\ Len(row(n)) = n /\ \A i \in 1..n : row(n)[i] = p[i]
  <2>1. n \in Nat /\ \A i \in 1..n : p[i] \in Seq(S)
    OBVIOUS
  <2> QED BY <2>1 DEF Row
<1>3. row(0) = <<>>
  <2>1. row(0) \in Seq(Seq(S)) /\ Len(row(0)) = 0
    BY <1>2
  <2> HIDE DEF row
  <2> QED BY <2>1
<1> HIDE DEF row
<1>4. FlattenSeq(row(0)) = <<>>
  BY <1>3, FlattenEmpty
<1>5. ASSUME NEW n \in 0..N
      PROVE  FlattenSeq(row(n)) \in Seq(S)
  BY <1>2, FlattenType
<1>6. ASSUME NEW n \in 1..N
      PROVE  FlattenSeq(row(n)) = FlattenSeq(row(n - 1)) \o p[n]
  <2>0. n \in 0..N /\ p[n] \in Seq(S)
    OBVIOUS
  <2>1. PICK m \in 0..N : m = n - 1 /\ n = m + 1 /\ m \in Nat
    <3>1. n - 1 \in 0..N /\ n = (n - 1) + 1 /\ n - 1 \in Nat
      OBVIOUS
    <3> QED BY <3>1
  <2>2. row(n) = Append(row(m), p[n])
    <3> DEFINE a == row(m)
               b == row(n)
               c == Append(a, p[n])
    <3>1. a \in Seq(Seq(S)) /\ Len(a) = m /\ \A i \in 1..m : a[i] = p[i]
      BY <1>2
    <3>2. b \in Seq(Seq(S)) /\ Len(b) = m + 1 /\ \A i \in 1..(m + 1) : b[i] = p[i]
      <4>1. b \in Seq(Seq(S)) /\ Len(b) = n /\ \A i \in 1..n : b[i] = p[i]
        BY <1>2, <2>0
      <4> QED BY <2>1, <4>1
    <3> HIDE DEF a, b
    <3>3. /\ c \in Seq(Seq(S)) /\ Len(c) = m + 1 /\ c[m + 1] = p[n]
          /\ \A i \in 1..m : c[i] = a[i]
      BY <2>0, <3>1, Appends
    <3> HIDE DEF c
    <3>4. ASSUME NEW i \in 1..Len(b)
          PROVE  b[i] = c[i]
      <4>1. CASE i = m + 1
        BY <2>1, <3>2, <3>3, <4>1
      <4>2. CASE i # m + 1
        <5>1. i \in 1..m
          BY <2>1, <3>2, <4>2
        <5> QED BY <3>1, <3>2, <3>3, <5>1
      <4> QED BY <4>1, <4>2
    <3>5. b = c
      BY <3>2, <3>3, <3>4, SeqEqual
    <3> QED BY <3>5 DEF a, b, c
  <2>3. row(m) \in Seq(Seq(S)) /\ p[n] \in Seq(S)
    BY <1>2
  <2>4. FlattenSeq(row(n)) = FlattenSeq(row(m)) \o p[n]
    BY <2>2, <2>3, FlattenAppend
  <2> QED BY <2>1, <2>4
<1> QED BY <1>4, <1>5, <1>6 DEF row

\* One rune more, without white space.
LEMMA UnspacedLemma ==
    ASSUME Types
    PROVE  /\ Unspaced(0) = <<>>
           /\ \A n \in 0..Len(src) : Unspaced(n) \in Seq(Runes)
           /\ \A n \in 1..Len(src) :
                Unspaced(n) = IF IsSpace(src[n]) THEN Unspaced(n - 1)
                              ELSE Unspaced(n - 1) \o <<src[n]>>
<1>1. src \in Seq(Runes) /\ Len(src) \in Nat /\ \A i \in 1..Len(src) : src[i] \in Runes
  BY DEF Types
<1> DEFINE piece(i) == IF IsSpace(src[i]) THEN <<>> ELSE <<src[i]>>
           p == [i \in 1..Len(src) |-> piece(i)]
<1>2. p \in [1..Len(src) -> Seq(Runes)]
  <2>1. \A i \in 1..Len(src) : piece(i) \in Seq(Runes)
    BY <1>1
  <2> HIDE DEF piece
  <2> QED BY <2>1
<1>3. \A n \in 0..Len(src) : FlattenSeq(Row(p, n)) = Unspaced(n)
  <2>1. ASSUME NEW n \in 0..Len(src)
        PROVE  Row(p, n) = [i \in 1..n |-> IF IsSpace(src[i]) THEN <<>> ELSE <<src[i]>>]
    <3>1. \A i \in 1..n : i \in 1..Len(src)
      BY <1>1
    <3>2. \A i \in 1..n : p[i] = IF IsSpace(src[i]) THEN <<>> ELSE <<src[i]>>
      BY <3>1
    <3> QED BY <3>2, Zenon DEF Row
  <2> HIDE DEF p
  <2> QED BY <2>1 DEF Unspaced
<1>4. /\ FlattenSeq(Row(p, 0)) = <<>> /\ \A n \in 0..Len(src) : FlattenSeq(Row(p, n)) \in Seq(Runes)
      /\ \A n \in 1..Len(src) : FlattenSeq(Row(p, n)) = FlattenSeq(Row(p, n - 1)) \o p[n]
  <2> HIDE DEF p
  <2> QED BY <1>1, <1>2, RowLemma
<1>5. Unspaced(0) = <<>> /\ \A n \in 0..Len(src) : Unspaced(n) \in Seq(Runes)
  <2>1. 0 \in 0..Len(src)
    BY <1>1
  <2> HIDE DEF p
  <2> QED BY <1>3, <1>4, <2>1
<1>6. ASSUME NEW n \in 1..Len(src)
      PROVE  Unspaced(n) = IF IsSpace(src[n]) THEN Unspaced(n - 1) ELSE Unspaced(n - 1) \o <<src[n]>>
  <2>1. n \in 0..Len(src) /\ n - 1 \in 0..Len(src)
    BY <1>1
  <2>2. FlattenSeq(Row(p, n)) = FlattenSeq(Row(p, n - 1)) \o p[n] /\ p[n] = piece(n)
    BY <1>4
  <2> HIDE DEF p
  <2>3. Unspaced(n) = Unspaced(n - 1) \o piece(n)
    BY <1>3, <2>1, <2>2
  <2>4. Unspaced(n - 1) \o <<>> = Unspaced(n - 1)
    BY <1>5, <2>1, ConcatEmptySeq
  <2> QED BY <2>3, <2>4
<1> QED BY <1>5, <1>6

LEMMA TextsLemma ==
    ASSUME NEW ts \in Seq(TokenType)
    PROVE  /\ FlattenSeq(TextsOf(ts)) \in Seq(Runes) /\ FlattenSeq(TextsOf(<<>>)) = <<>>
           /\ \A t \in TokenType :
                FlattenSeq(TextsOf(Append(ts, t))) = FlattenSeq(TextsOf(ts)) \o t.text
<1>1. Len(ts) \in Nat /\ DOMAIN ts = 1..Len(ts) /\ \A i \in 1..Len(ts) : ts[i].text \in Seq(Runes)
  <2>1. \A i \in 1..Len(ts) : ts[i] \in TokenType
    OBVIOUS
  <2> QED BY <2>1 DEF TokenType
<1>2. /\ TextsOf(ts) \in Seq(Seq(Runes)) /\ Len(TextsOf(ts)) = Len(ts)
      /\ \A i \in 1..Len(ts) : TextsOf(ts)[i] = ts[i].text
  BY <1>1 DEF TextsOf
<1>3. FlattenSeq(TextsOf(<<>>)) = <<>>
  <2>1. TextsOf(<<>>) = <<>>
    BY DEF TextsOf
  <2> QED BY <2>1, FlattenEmpty
<1>4. ASSUME NEW t \in TokenType
      PROVE  FlattenSeq(TextsOf(Append(ts, t))) = FlattenSeq(TextsOf(ts)) \o t.text
  <2> DEFINE us == Append(ts, t)
             a  == TextsOf(ts)
             b  == TextsOf(us)
             c  == Append(a, t.text)
  <2>1. t.text \in Seq(Runes)
    BY DEF TokenType
  <2>2. /\ us \in Seq(TokenType) /\ Len(us) = Len(ts) + 1 /\ us[Len(ts) + 1] = t
        /\ \A i \in 1..Len(ts) : us[i] = ts[i]
    BY Appends
  <2> HIDE DEF us
  <2>3. DOMAIN us = 1..(Len(ts) + 1)
    BY <1>1, <2>2
  <2>4. \A i \in 1..(Len(ts) + 1) : us[i].text \in Seq(Runes)
    <3>1. \A i \in 1..(Len(ts) + 1) : us[i] \in TokenType
      BY <2>2, <2>3
    <3> QED BY <3>1 DEF TokenType
  <2>5. /\ b \in Seq(Seq(Runes)) /\ Len(b) = Len(ts) + 1
        /\ \A i \in 1..(Len(ts) + 1) : b[i] = us[i].text
    BY <1>1, <2>3, <2>4 DEF TextsOf
  <2>6. /\ a \in Seq(Seq(Runes)) /\ Len(a) = Len(ts) /\ \A i \in 1..Len(ts) : a[i] = ts[i].text
    BY <1>2
  <2> HIDE DEF a, b
  <2>7. /\ c \in Seq(Seq(Runes)) /\ Len(c) = Len(ts) + 1 /\ c[Len(ts) + 1] = t.text
        /\ \A i \in 1..Len(ts) : c[i] = a[i]
    BY <2>1, <2>6, Appends
  <2> HIDE DEF c
  <2>8. ASSUME NEW i \in 1..Len(b)
        PROVE  b[i] = c[i]
    <3>1. CASE i = Len(ts) + 1
      BY <1>1, <2>2, <2>5, <2>7, <3>1
    <3>2. CASE i # Len(ts) + 1
      <4>1. i \in 1..Len(ts)
        BY <1>1, <2>5, <3>2
      <4> QED BY <1>1, <2>2, <2>5, <2>6, <2>7, <4>1
    <3> QED BY <3>1, <3>2
  <2>9. b = c
    BY <2>5, <2>7, <2>8, SeqEqual
  <2>10. FlattenSeq(c) = FlattenSeq(a) \o t.text
    BY <2>1, <2>6, FlattenAppend DEF c
  <2> QED BY <2>9, <2>10 DEF a, b, us
<1> QED BY <1>2, <1>3, <1>4, FlattenType

-----------------------------------------------------------------------------
(***************************************************************************)
(* Nothing is lost, repeated or changed.                                   *)
(***************************************************************************)
Modes  == {"next", "word", "quoted", "bare", "end", "error"}
Tokens == {"op", "punct", "value"}

\* What a step has to show of the text read so far.
LEMMA KeptLemma ==
    ASSUME src' = src, NEW m, NEW q, NEW ts, NEW t,
           mode' = m, (pos - 1)' = q, toks' = ts, text' = t,
           (Plain /\ m # "error") => m # "quoted" /\ Read(m, ts, t) = Unspaced(q)
    PROVE  Kept'
<1>1. Plain' = Plain
  BY DEF Plain
<1>2. Unspaced(pos - 1)' = Unspaced(q)
  BY DEF Unspaced
<1>3. Read(mode, toks, text)' = Read(m, ts, t)
  BY DEF Read, TextsOf
<1> QED BY <1>1, <1>2, <1>3 DEF Kept

LEMMA FailLemma == ASSUME Types, Fail PROVE Types' /\ Kept'
<1>1. /\ src' = src /\ mode' = "error" /\ pos' = pos /\ toks' = toks /\ text' = text
  BY DEF Fail
<1>2. PICK q : q = (pos - 1)'
  OBVIOUS
<1>3. Kept'
  BY <1>1, <1>2, KeptLemma
<1> QED BY <1>1, <1>3 DEF Types

LEMMA EmitLemma ==
    ASSUME Types, NEW kind \in Tokens, NEW t \in Seq(Runes), NEW n \in 0..2,
           pos + n =< Len(src) + 1, Emit(kind, t, n), NEW q, q = pos + n - 1,
           Plain => FlattenSeq(TextsOf(toks)) \o t = Unspaced(q)
    PROVE  Types' /\ Kept'
<1> DEFINE tok == [kind |-> kind, text |-> t]
           ts  == Append(toks, tok)
<1>1. /\ src' = src /\ mode' = "next" /\ pos' = pos + n /\ text' = <<>> /\ toks' = ts
  BY DEF Emit
<1>2. tok \in TokenType /\ tok.text = t
  BY DEF TokenType, Tokens
<1>3. /\ toks \in Seq(TokenType) /\ src \in Seq(Runes) /\ Len(src) \in Nat /\ pos \in Nat /\ pos >= 1
  BY DEF Types
<1> HIDE DEF tok
<1>4. /\ ts \in Seq(TokenType) /\ FlattenSeq(TextsOf(ts)) = FlattenSeq(TextsOf(toks)) \o t
      /\ FlattenSeq(TextsOf(ts)) \in Seq(Runes)
  <2>1. ts \in Seq(TokenType)
    BY <1>2, <1>3
  <2> HIDE DEF ts
  <2>2. FlattenSeq(TextsOf(ts)) \in Seq(Runes)
    BY <2>1, TextsLemma
  <2>3. FlattenSeq(TextsOf(Append(toks, tok))) = FlattenSeq(TextsOf(toks)) \o t
    BY <1>2, <1>3, TextsLemma
  <2> QED BY <2>1, <2>2, <2>3 DEF ts
<1> HIDE DEF ts
<1>5. Types'
  <2>1. pos + n \in 1..(Len(src) + 1) /\ <<>> \in Seq(Runes)
    BY <1>3
  <2> QED BY <1>1, <1>3, <1>4, <2>1 DEF Types
<1>6. Plain => Read("next", ts, <<>>) = Unspaced(q)
  <2>1. FlattenSeq(TextsOf(ts)) \o <<>> = FlattenSeq(TextsOf(ts))
    BY <1>4, ConcatEmptySeq
  <2> QED BY <1>4, <2>1 DEF Read
<1>7. (pos - 1)' = q
  BY <1>1, <1>3
<1>8. Kept'
  BY ONLY <1>1, <1>6, <1>7, KeptLemma
<1> QED BY <1>5, <1>8

LEMMA TakeLemma ==
    ASSUME Types, mode \in {"word", "quoted", "bare"}, NEW r \in Runes, NEW n \in 1..2,
           pos + n =< Len(src) + 1, Take(r, n), NEW q, q = pos + n - 1,
           Plain => mode # "quoted" /\ Read(mode, toks, text) \o <<r>> = Unspaced(q)
    PROVE  Types' /\ Kept'
<1> DEFINE t == Append(text, r)
           f == FlattenSeq(TextsOf(toks))
<1>1. /\ src' = src /\ mode' = mode /\ pos' = pos + n /\ text' = t /\ toks' = toks
  BY DEF Take
<1>2. /\ toks \in Seq(TokenType) /\ src \in Seq(Runes) /\ Len(src) \in Nat /\ pos \in Nat /\ pos >= 1
      /\ text \in Seq(Runes) /\ t \in Seq(Runes) /\ f \in Seq(Runes)
  BY TextsLemma DEF Types
<1>3. Types'
  <2>1. pos + n \in 1..(Len(src) + 1)
    BY <1>2
  <2> HIDE DEF t
  <2> QED BY <1>1, <1>2, <2>1 DEF Types
<1>4. Read(mode, toks, t) = Read(mode, toks, text) \o <<r>>
  <2>1. t = text \o <<r>> /\ <<r>> \in Seq(Runes)
    BY <1>2, AppendIsConcat
  <2> HIDE DEF t, f
  <2>2. PICK g \in Seq(Runes) : g = IF mode = "word" THEN f \o <<"=">> ELSE f
    <3>1. "=" \in Runes
      BY RuneLemma
    <3>2. f \o <<"=">> \in Seq(Runes)
      BY <1>2, <3>1
    <3> QED BY <1>2, <3>2
  <2>3. (g \o text) \o <<r>> = g \o (text \o <<r>>)
    <3>1. PICK e \in Seq(Runes), x \in Seq(Runes) : e = <<r>> /\ x = text
      BY <1>2, <2>1
    <3>2. (g \o x) \o e = g \o (x \o e)
      BY ConcatAssociative, SMTT(30)
    <3> QED BY <3>1, <3>2
  <2>4. Read(mode, toks, text) = g \o text /\ Read(mode, toks, t) = g \o t
    BY <2>2 DEF Read, f
  <2> QED BY <2>1, <2>3, <2>4
<1> HIDE DEF t
<1>5. (Plain /\ mode # "error") => mode # "quoted" /\ Read(mode, toks, t) = Unspaced(q)
  BY <1>4
<1>6. (pos - 1)' = q
  BY <1>1, <1>2
<1>7. Kept'
  BY ONLY <1>1, <1>5, <1>6, KeptLemma
<1> QED BY <1>3, <1>7

\* The two ways of reading a rune that is escaped.
LEMMA EscapeLemma ==
    ASSUME Types, More, mode \in {"quoted", "bare"}, Escape
    PROVE  Types' /\ Kept'
<1>1. Peek = "\\" /\ ~Plain /\ pos \in 1..Len(src) /\ src \in Seq(Runes) /\ Len(src) \in Nat
  BY PeekLemma DEF Escape, Types
<1>2. CASE pos < Len(src)
  <2>1. Take(src[pos + 1], 2)
    BY <1>2 DEF Escape
  <2>2. src[pos + 1] \in Runes /\ pos + 2 =< Len(src) + 1 /\ 2 \in 1..2
    BY <1>1, <1>2
  <2> QED BY <1>1, <2>1, <2>2, TakeLemma
<1>3. CASE ~(pos < Len(src))
  <2>1. Fail
    BY <1>3 DEF Escape
  <2> QED BY <2>1, FailLemma
<1> QED BY <1>2, <1>3

\* The rune at hand, added to what was read.
LEMMA RuneRead ==
    ASSUME Types, Kept, More
    PROVE  /\ IsSpace(Peek) => Unspaced(pos) = Unspaced(pos - 1)
           /\ ~IsSpace(Peek) => Unspaced(pos) = Unspaced(pos - 1) \o <<Peek>>
           /\ Unspaced(pos - 1) \in Seq(Runes) /\ pos - 1 \in Nat
           /\ (Plain /\ mode = "next") => FlattenSeq(TextsOf(toks)) = Unspaced(pos - 1)
<1>1. pos \in 1..Len(src) /\ pos - 1 \in 0..Len(src) /\ pos - 1 \in Nat
  BY PeekLemma
<1>2. Unspaced(pos) = IF IsSpace(src[pos]) THEN Unspaced(pos - 1) ELSE Unspaced(pos - 1) \o <<src[pos]>>
  BY <1>1, UnspacedLemma
<1>3. Unspaced(pos - 1) \in Seq(Runes)
  BY <1>1, UnspacedLemma
<1>4. ASSUME Plain, mode = "next"
      PROVE  FlattenSeq(TextsOf(toks)) = Unspaced(pos - 1)
  <2>1. FlattenSeq(TextsOf(toks)) \in Seq(Runes) /\ text = <<>>
    BY <1>4, TextsLemma DEF Types
  <2>2. FlattenSeq(TextsOf(toks)) \o <<>> = FlattenSeq(TextsOf(toks))
    BY <2>1, ConcatEmptySeq
  <2>3. Read(mode, toks, text) = Unspaced(pos - 1)
    BY <1>4 DEF Kept
  <2> QED BY <1>4, <2>1, <2>2, <2>3 DEF Read
<1> QED BY <1>1, <1>2, <1>3, <1>4 DEF Peek

\* Two runes that are an operator.
LEMMA PairRead ==
    ASSUME Types, Kept, More, mode = "next", NEW r \in Reserved, Then(r), Peek \in Reserved,
           NEW kind \in Tokens, Emit(kind, <<Peek, r>>, 2)
    PROVE  Types' /\ Kept'
<1>1. /\ pos \in Nat /\ Len(src) \in Nat /\ pos >= 1 /\ pos < Len(src) /\ src[pos + 1] = r
      /\ src \in Seq(Runes)
  BY DEF Types, Then
<1>2. PICK q \in 1..Len(src) : q = pos + 1
  <2>1. pos + 1 \in 1..Len(src)
    BY <1>1
  <2> QED BY <2>1
<1>3. q = pos + 2 - 1 /\ q - 1 = pos /\ pos + 2 =< Len(src) + 1 /\ src[q] = r
  BY <1>1, <1>2
<1>4. Peek \in Runes /\ r \in Runes /\ ~IsSpace(Peek) /\ ~IsSpace(r)
  BY RuneLemma
<1>5. Unspaced(q) = Unspaced(pos) \o <<r>>
  <2>1. Unspaced(q) = IF IsSpace(src[q]) THEN Unspaced(q - 1) ELSE Unspaced(q - 1) \o <<src[q]>>
    BY <1>2, UnspacedLemma
  <2> QED BY <1>3, <1>4, <2>1
<1>6. Plain => FlattenSeq(TextsOf(toks)) \o <<Peek, r>> = Unspaced(q)
  <2>1. PICK a \in Seq(Runes), b \in Seq(Runes), c \in Seq(Runes) :
           a = Unspaced(pos - 1) /\ b = <<Peek>> /\ c = <<r>>
    <3>1. <<Peek>> \in Seq(Runes) /\ <<r>> \in Seq(Runes)
      BY <1>4
    <3> QED BY <3>1, RuneRead
  <2>2. (a \o b) \o c = a \o (b \o c)
    BY ConcatAssociative, SMTT(30)
  <2>3. b \o c = <<Peek, r>>
    BY <1>4, <2>1, PairLemma
  <2>4. Unspaced(pos) = a \o b /\ (Plain => FlattenSeq(TextsOf(toks)) = a)
    BY <1>4, <2>1, RuneRead
  <2> QED BY <1>5, <2>1, <2>2, <2>3, <2>4
<1>7. <<Peek, r>> \in Seq(Runes) /\ 2 \in 0..2
  BY <1>4
<1> QED BY <1>3, <1>6, <1>7, EmitLemma

\* One rune that is a token.
LEMMA SingleRead ==
    ASSUME Types, Kept, More, mode = "next", Peek \in Reserved, NEW kind \in Tokens,
           Emit(kind, <<Peek>>, 1)
    PROVE  Types' /\ Kept'
<1>1. pos \in Nat /\ pos = pos + 1 - 1 /\ pos + 1 =< Len(src) + 1
  <2>1. pos \in Nat /\ pos + 1 =< Len(src) + 1
    BY PeekLemma
  <2> QED BY <2>1
<1>2. <<Peek>> \in Seq(Runes) /\ ~IsSpace(Peek) /\ 1 \in 0..2
  <2>1. Peek \in Runes /\ ~IsSpace(Peek)
    BY RuneLemma
  <2> QED BY <2>1
<1>3. Plain => FlattenSeq(TextsOf(toks)) \o <<Peek>> = Unspaced(pos)
  BY <1>2, RuneRead
<1> QED BY <1>1, <1>2, <1>3, EmitLemma

LEMMA SkipSpaceKept == ASSUME Types, Kept, SkipSpace PROVE Types' /\ Kept'
<1>1. /\ mode = "next" /\ More /\ IsSpace(Peek) /\ pos' = pos + 1 /\ src' = src /\ mode' = mode
      /\ text' = text /\ toks' = toks
  BY DEF SkipSpace
<1>2. pos + 1 \in 1..(Len(src) + 1) /\ pos \in Nat
  BY <1>1, PeekLemma
<1>3. Types'
  BY <1>1, <1>2 DEF Types
<1>4. Plain => Read(mode, toks, text) = Unspaced(pos)
  BY <1>1, RuneRead DEF Kept
<1>5. (pos - 1)' = pos
  BY <1>1, <1>2
<1>6. (Plain /\ mode # "error") => mode # "quoted" /\ Read(mode, toks, text) = Unspaced(pos)
  BY <1>1, <1>4
<1>7. PICK q : q = pos
  OBVIOUS
<1>8. Kept'
  BY <1>1, <1>5, <1>6, <1>7, KeptLemma
<1> QED BY <1>3, <1>8

LEMMA EndKept == ASSUME Types, Kept, EndOfInput PROVE Types' /\ Kept'
<1>1. /\ mode = "next" /\ ~More /\ mode' = "end" /\ src' = src /\ pos' = pos
      /\ text' = text /\ toks' = toks
  BY DEF EndOfInput
<1>2. pos = Len(src) + 1
  BY <1>1 DEF Types, More
<1>3. Types'
  BY <1>1, <1>2 DEF Types
<1>4. PICK q : q = pos - 1
  OBVIOUS
<1>5. Plain => Read("end", toks, text) = Unspaced(q)
  BY <1>1, <1>4 DEF Kept, Read
<1>6. Kept'
  BY <1>1, <1>4, <1>5, KeptLemma
<1> QED BY <1>3, <1>6

LEMMA OperatorsKept ==
    ASSUME Types, Kept, Punctuate \/ Bang \/ Angle
    PROVE  Types' /\ Kept'
<1>0. {"op", "punct"} \subseteq Tokens
  BY DEF Tokens
<1>1. CASE Punctuate
  <2>1. mode = "next" /\ More /\ Peek \in Reserved /\ Emit("punct", <<Peek>>, 1)
    BY <1>1, RuneLemma DEF Punctuate
  <2> QED BY <1>0, <2>1, SingleRead
<1>2. CASE Bang
  <2>1. mode = "next" /\ More /\ Peek = "!" /\ Peek \in Reserved /\ "=" \in Reserved
    BY <1>2, RuneLemma DEF Bang
  <2>2. CASE Then("=")
    <3>1. Emit("op", <<Peek, "=">>, 2)
      BY <1>2, <2>1, <2>2 DEF Bang
    <3> QED BY <1>0, <2>1, <2>2, <3>1, PairRead
  <2>3. CASE ~Then("=")
    <3>1. Fail
      BY <1>2, <2>3 DEF Bang
    <3> QED BY <3>1, FailLemma
  <2> QED BY <2>2, <2>3
<1>3. CASE Angle
  <2>1. mode = "next" /\ More /\ Peek \in Reserved /\ "=" \in Reserved
    BY <1>3, RuneLemma DEF Angle
  <2>2. CASE Then("=")
    <3>1. Emit("op", <<Peek, "=">>, 2)
      BY <1>3, <2>2 DEF Angle
    <3> QED BY <1>0, <2>1, <2>2, <3>1, PairRead
  <2>3. CASE ~Then("=")
    <3>1. Emit("op", <<Peek>>, 1)
      BY <1>3, <2>3 DEF Angle
    <3> QED BY <1>0, <2>1, <3>1, SingleRead
  <2> QED BY <2>2, <2>3
<1> QED BY <1>1, <1>2, <1>3

LEMMA EnterLemma ==
    ASSUME Types, NEW m \in {"word", "quoted", "bare"}, NEW n \in 0..1,
           pos + n =< Len(src) + 1, Enter(m, n), NEW q, q = pos + n - 1,
           Plain => m # "quoted" /\ Read(m, toks, text) = Unspaced(q)
    PROVE  Types' /\ Kept'
<1>1. src' = src /\ mode' = m /\ pos' = pos + n /\ text' = text /\ toks' = toks
  BY DEF Enter
<1>2. pos \in Nat /\ pos >= 1 /\ Len(src) \in Nat
  BY DEF Types
<1>3. pos + n \in 1..(Len(src) + 1) /\ (pos - 1)' = q
  BY <1>1, <1>2
<1>4. Types'
  BY <1>1, <1>3 DEF Types
<1>5. Kept'
  BY <1>1, <1>3, KeptLemma
<1> QED BY <1>4, <1>5

\* The rune at hand, added to what was read, inside a word or a bare value.
LEMMA OneMoreRead ==
    ASSUME Types, Kept, More, mode \in {"word", "bare"}, ~IsSpace(Peek), Take(Peek, 1)
    PROVE  Types' /\ Kept'
<1>1. Peek \in Runes /\ pos \in Nat /\ pos + 1 =< Len(src) + 1
  BY PeekLemma
<1>2. pos = pos + 1 - 1 /\ 1 \in 1..2
  BY <1>1
<1>3. Plain => mode # "quoted" /\ Read(mode, toks, text) \o <<Peek>> = Unspaced(pos)
  BY RuneRead DEF Kept
<1> QED BY <1>1, <1>2, <1>3, TakeLemma

LEMMA EqualsKept == ASSUME Types, Kept, Equals PROVE Types' /\ Kept'
<1>1. mode = "next" /\ More /\ Peek = "=" /\ "=" \in Reserved /\ ~IsSpace(Peek) /\ text = <<>>
  BY RuneLemma DEF Equals, Types
<1>2. CASE Then("=")
  <2>1. Emit("op", <<Peek, "=">>, 2) /\ "op" \in Tokens
    BY <1>1, <1>2 DEF Equals, Tokens
  <2> QED BY <1>1, <1>2, <2>1, PairRead
<1>3. CASE ~Then("=")
  <2>1. Enter("word", 1)
    BY <1>3 DEF Equals
  <2>2. pos \in Nat /\ pos + 1 =< Len(src) + 1
    BY <1>1, PeekLemma
  <2>3. pos = pos + 1 - 1 /\ 1 \in 0..1
    BY <2>2
  <2>4. Plain => Read("word", toks, text) = Unspaced(pos)
    <3>1. FlattenSeq(TextsOf(toks)) \in Seq(Runes) /\ <<"=">> \in Seq(Runes)
      <4>1. "=" \in Runes
        BY RuneLemma
      <4>2. FlattenSeq(TextsOf(toks)) \in Seq(Runes)
        BY TextsLemma DEF Types
      <4> QED BY <4>1, <4>2
    <3>2. PICK g \in Seq(Runes) : g = FlattenSeq(TextsOf(toks)) \o <<"=">>
      <4>1. FlattenSeq(TextsOf(toks)) \o <<"=">> \in Seq(Runes)
        BY <3>1
      <4> QED BY <4>1
    <3>3. g \o <<>> = g
      BY ConcatEmptySeq
    <3>4. Read("word", toks, text) = g
      BY <1>1, <3>2, <3>3 DEF Read
    <3>5. Plain => g = Unspaced(pos)
      BY <1>1, <3>2, RuneRead
    <3> QED BY <3>4, <3>5
  <2> QED BY <2>1, <2>2, <2>3, <2>4, EnterLemma
<1> QED BY <1>2, <1>3

LEMMA WordKept == ASSUME Types, Kept, Word PROVE Types' /\ Kept'
<1>1. mode = "word"
  BY DEF Word
<1>2. CASE ~More
  <2>1. Fail
    BY <1>2 DEF Word
  <2> QED BY <2>1, FailLemma
<1>3. CASE More /\ Peek = "="
  <2>1. Emit("op", <<"=">> \o text \o <<"=">>, 1) /\ "op" \in Tokens /\ ~IsSpace(Peek)
    BY <1>3, RuneLemma DEF Word, Tokens
  <2>2. pos \in Nat /\ pos + 1 =< Len(src) + 1
    BY <1>3, PeekLemma
  <2>3. pos = pos + 1 - 1 /\ 1 \in 0..2
    BY <2>2
  <2>4. PICK f \in Seq(Runes), e \in Seq(Runes), t \in Seq(Runes) :
           f = FlattenSeq(TextsOf(toks)) /\ e = <<"=">> /\ t = text
    <3>1. "=" \in Runes
      BY RuneLemma
    <3>2. <<"=">> \in Seq(Runes)
      BY <3>1
    <3> QED BY <3>2, TextsLemma DEF Types
  <2>5. f \o ((e \o t) \o e) = ((f \o e) \o t) \o e
    <3>1. f \o ((e \o t) \o e) = (f \o (e \o t)) \o e
      <4>1. PICK g \in Seq(Runes) : g = e \o t
        <5>1. e \o t \in Seq(Runes)
          OBVIOUS
        <5> QED BY <5>1
      <4>2. f \o (g \o e) = (f \o g) \o e
        BY ConcatAssociative, SMTT(30)
      <4> QED BY <4>1, <4>2
    <3>2. f \o (e \o t) = (f \o e) \o t
      BY ConcatAssociative, SMTT(30)
    <3> QED BY <3>1, <3>2
  <2>6. Plain => f \o ((e \o t) \o e) = Unspaced(pos)
    <3>1. Plain => (f \o e) \o t = Unspaced(pos - 1)
      BY <1>1, <2>4 DEF Kept, Read
    <3>2. Unspaced(pos) = Unspaced(pos - 1) \o e
      BY <1>3, <2>1, <2>4, RuneRead
    <3> QED BY <2>5, <3>1, <3>2
  <2>7. (e \o t) \o e \in Seq(Runes) /\ Emit("op", (e \o t) \o e, 1)
    BY <2>1, <2>4
  <2>8. Plain => FlattenSeq(TextsOf(toks)) \o ((e \o t) \o e) = Unspaced(pos)
    BY <2>4, <2>6
  <2> HIDE <2>4
  <2> QED BY <2>1, <2>2, <2>3, <2>7, <2>8, EmitLemma
<1>4. CASE More /\ Peek # "=" /\ IsLetter(Peek)
  <2>1. Take(Peek, 1) /\ ~IsSpace(Peek)
    BY <1>4, RuneLemma DEF Word
  <2> QED BY <1>1, <1>4, <2>1, OneMoreRead
<1>5. CASE More /\ Peek # "=" /\ ~IsLetter(Peek)
  <2>1. Fail
    BY <1>5 DEF Word
  <2> QED BY <2>1, FailLemma
<1> QED BY <1>2, <1>3, <1>4, <1>5

LEMMA QuotesKept ==
    ASSUME Types, Kept, OpenQuote \/ Quoted
    PROVE  Types' /\ Kept'
<1>1. CASE OpenQuote
  <2>1. More /\ Peek \in {"\"", "'"} /\ Enter("quoted", 1)
    BY <1>1 DEF OpenQuote
  <2>2. pos \in Nat /\ pos + 1 =< Len(src) + 1 /\ ~Plain
    BY <2>1, PeekLemma
  <2>3. pos = pos + 1 - 1 /\ 1 \in 0..1
    BY <2>2
  <2> QED BY <2>1, <2>2, <2>3, EnterLemma
<1>2. CASE Quoted
  <2>1. mode = "quoted" /\ ~Plain
    BY <1>2 DEF Quoted, Kept
  <2>2. CASE Fail
    BY <2>2, FailLemma
  <2>3. CASE More /\ Escape
    BY <2>1, <2>3, EscapeLemma
  <2>4. CASE More /\ Emit("value", text, 1)
    <3>1. pos \in Nat /\ pos + 1 =< Len(src) + 1 /\ text \in Seq(Runes) /\ "value" \in Tokens
      BY <2>4, PeekLemma DEF Types, Tokens
    <3>2. pos = pos + 1 - 1 /\ 1 \in 0..2
      BY <3>1
    <3> QED BY <2>1, <2>4, <3>1, <3>2, EmitLemma
  <2>5. CASE More /\ Take(Peek, 1)
    <3>1. pos \in Nat /\ pos + 1 =< Len(src) + 1 /\ Peek \in Runes
      BY <2>5, PeekLemma
    <3>2. pos = pos + 1 - 1 /\ 1 \in 1..2
      BY <3>1
    <3> QED BY <2>1, <2>5, <3>1, <3>2, TakeLemma
  <2> QED BY <1>2, <2>2, <2>3, <2>4, <2>5 DEF Quoted
<1> QED BY <1>1, <1>2

LEMMA BareKept ==
    ASSUME Types, Kept, OpenBare \/ Bare
    PROVE  Types' /\ Kept'
<1>0. pos \in Nat /\ pos >= 1 /\ pos =< Len(src) + 1 /\ Len(src) \in Nat /\ text \in Seq(Runes)
  BY DEF Types
<1>1. PICK q : q = pos + 0 - 1
  OBVIOUS
<1>2. q = pos - 1 /\ pos + 0 =< Len(src) + 1 /\ 0 \in 0..1 /\ 0 \in 0..2
  BY <1>0, <1>1
<1>3. CASE OpenBare
  <2>1. mode = "next" /\ Enter("bare", 0)
    BY <1>3 DEF OpenBare
  <2>2. Plain => Read("bare", toks, text) = Unspaced(q)
    BY <1>2, <2>1 DEF Kept, Read
  <2> QED BY <1>1, <1>2, <2>1, <2>2, EnterLemma
<1>4. CASE Bare
  <2>1. mode = "bare"
    BY <1>4 DEF Bare
  <2>2. CASE More /\ Escape
    BY <2>1, <2>2, EscapeLemma
  <2>3. CASE ~BareEnds /\ Take(Peek, 1)
    <3>1. More /\ ~IsSpace(Peek)
      BY <2>3 DEF BareEnds
    <3> QED BY <2>1, <2>3, <3>1, OneMoreRead
  <2>4. CASE Fail
    BY <2>4, FailLemma
  <2>5. CASE Emit("value", text, 0)
    <3>1. Plain => FlattenSeq(TextsOf(toks)) \o text = Unspaced(q)
      BY <1>2, <2>1 DEF Kept, Read
    <3>2. "value" \in Tokens
      BY DEF Tokens
    <3> QED BY <1>0, <1>1, <1>2, <2>5, <3>1, <3>2, EmitLemma
  <2> QED BY <1>4, <2>2, <2>3, <2>4, <2>5 DEF Bare
<1> QED BY <1>3, <1>4

LEMMA StopKept == ASSUME Types, Kept, UNCHANGED vars PROVE Types' /\ Kept'
<1>1. src' = src /\ mode' = mode /\ pos' = pos /\ text' = text /\ toks' = toks
  BY DEF vars
<1>2. PICK q : q = pos - 1
  OBVIOUS
<1>3. (Plain /\ mode # "error") => mode # "quoted" /\ Read(mode, toks, text) = Unspaced(q)
  BY <1>2 DEF Kept
<1>4. Kept'
  BY <1>1, <1>2, <1>3, KeptLemma
<1> QED BY <1>1, <1>4 DEF Types

LEMMA KeptStep == ASSUME Types, Kept, [Next]_vars PROVE Types' /\ Kept'
BY SkipSpaceKept, EndKept, OperatorsKept, EqualsKept, WordKept, QuotesKept, BareKept, StopKept
   DEF Next, Stopped

-----------------------------------------------------------------------------
(***************************************************************************)
(* What literal writes for a value.                                        *)
(***************************************************************************)
Special == {"\\", "\""}

Piece(r) == IF r \in Special THEN <<"\\", r>> ELSE <<r>>

LEMMA PieceLemma ==
    ASSUME NEW r \in Runes
    PROVE  /\ Piece(r) \in Seq(Runes)
           /\ r \in Special => Len(Piece(r)) = 2 /\ Piece(r)[1] = "\\" /\ Piece(r)[2] = r
           /\ r \notin Special => Len(Piece(r)) = 1 /\ Piece(r)[1] = r
<1>1. "\\" \in Runes
  BY DEF Runes
<1>2. CASE r \in Special
  <2>1. Piece(r) = <<"\\", r>>
    BY <1>2 DEF Piece
  <2> QED BY <1>1, <1>2, <2>1
<1>3. CASE r \notin Special
  <2>1. Piece(r) = <<r>>
    BY <1>3 DEF Piece
  <2> QED BY <1>3, <2>1
<1> QED BY <1>2, <1>3

\* One rune of the value more.
LEMMA EscapedLemma ==
    ASSUME NEW v \in Seq(Runes)
    PROVE  /\ EscapedTo(v, 0) = <<>> /\ Escaped(v) = EscapedTo(v, Len(v))
           /\ \A k \in 0..Len(v) : EscapedTo(v, k) \in Seq(Runes)
           /\ \A k \in 1..Len(v) : EscapedTo(v, k) = EscapedTo(v, k - 1) \o Piece(v[k])
<1> DEFINE p == [i \in 1..Len(v) |-> Piece(v[i])]
<1>1. Len(v) \in Nat /\ \A i \in 1..Len(v) : v[i] \in Runes
  OBVIOUS
<1>2. p \in [1..Len(v) -> Seq(Runes)]
  BY <1>1, PieceLemma
<1>3. \A n \in 0..Len(v) : FlattenSeq(Row(p, n)) = EscapedTo(v, n)
  <2>1. ASSUME NEW n \in 0..Len(v)
        PROVE  Row(p, n)
                 = [i \in 1..n |-> IF v[i] \in {"\\", "\""} THEN <<"\\", v[i]>> ELSE <<v[i]>>]
    <3>1. \A i \in 1..n : i \in 1..Len(v)
      BY <1>1
    <3>2. \A i \in 1..n : p[i] = IF v[i] \in {"\\", "\""} THEN <<"\\", v[i]>> ELSE <<v[i]>>
      BY <3>1 DEF Piece, Special
    <3> QED BY <3>2, Zenon DEF Row
  <2> HIDE DEF p
  <2> QED BY <2>1 DEF EscapedTo
<1>4. /\ FlattenSeq(Row(p, 0)) = <<>> /\ \A n \in 0..Len(v) : FlattenSeq(Row(p, n)) \in Seq(Runes)
      /\ \A n \in 1..Len(v) : FlattenSeq(Row(p, n)) = FlattenSeq(Row(p, n - 1)) \o p[n]
  <2> HIDE DEF p
  <2> QED BY <1>1, <1>2, RowLemma
<1>5. EscapedTo(v, 0) = <<>> /\ \A k \in 0..Len(v) : EscapedTo(v, k) \in Seq(Runes)
  <2>1. 0 \in 0..Len(v)
    BY <1>1
  <2> HIDE DEF p
  <2> QED BY <1>3, <1>4, <2>1
<1>6. ASSUME NEW k \in 1..Len(v)
      PROVE  EscapedTo(v, k) = EscapedTo(v, k - 1) \o Piece(v[k])
  <2>1. k \in 0..Len(v) /\ k - 1 \in 0..Len(v)
    BY <1>1
  <2>2. FlattenSeq(Row(p, k)) = FlattenSeq(Row(p, k - 1)) \o p[k] /\ p[k] = Piece(v[k])
    BY <1>4
  <2> HIDE DEF p
  <2> QED BY <1>3, <2>1, <2>2
<1>7. Escaped(v) = EscapedTo(v, Len(v))
  BY Zenon DEF Escaped, EscapedTo
<1> QED BY <1>5, <1>6, <1>7

\* What is written first stays as it is.
LEMMA EscapedPrefix ==
    ASSUME NEW v \in Seq(Runes), NEW k \in 0..Len(v)
    PROVE  \A j \in k..Len(v) :
              /\ Len(EscapedTo(v, k)) =< Len(EscapedTo(v, j))
              /\ \A i \in 1..Len(EscapedTo(v, k)) : EscapedTo(v, j)[i] = EscapedTo(v, k)[i]
<1> DEFINE e == EscapedTo(v, k)
           P(j) == /\ Len(e) =< Len(EscapedTo(v, j))
                   /\ \A i \in 1..Len(e) : EscapedTo(v, j)[i] = e[i]
           T == {j \in k..Len(v) : ~P(j)}
<1>1. Len(v) \in Nat /\ k \in Nat /\ e \in Seq(Runes) /\ Len(e) \in Nat
  <2>1. e \in Seq(Runes)
    BY EscapedLemma
  <2> HIDE DEF e
  <2> QED BY <2>1
<1>2. P(k)
  BY <1>1
<1> HIDE DEF e
<1>3. ASSUME NEW j \in k..Len(v), j # k, P(j - 1)
      PROVE  P(j)
  <2>1. j \in 1..Len(v) /\ j - 1 \in 0..Len(v) /\ v[j] \in Runes
    BY <1>1, <1>3
  <2>2. PICK a \in Seq(Runes), b \in Seq(Runes) : a = EscapedTo(v, j - 1) /\ b = Piece(v[j])
    BY <2>1, EscapedLemma, PieceLemma
  <2>3. EscapedTo(v, j) = a \o b
    BY <2>1, <2>2, EscapedLemma
  <2>4. /\ Len(a \o b) = Len(a) + Len(b) /\ Len(a) \in Nat /\ Len(b) \in Nat
        /\ \A i \in 1..(Len(a) + Len(b)) : (a \o b)[i] = IF i =< Len(a) THEN a[i] ELSE b[i - Len(a)]
    BY ConcatProperties
  <2>5. Len(e) =< Len(a) /\ \A i \in 1..Len(e) : a[i] = e[i]
    BY <1>3, <2>2
  <2>6. Len(e) =< Len(EscapedTo(v, j))
    BY <1>1, <2>3, <2>4, <2>5
  <2>7. \A i \in 1..Len(e) : (a \o b)[i] = e[i]
    <3>1. \A i \in 1..Len(e) : i \in 1..(Len(a) + Len(b)) /\ i =< Len(a)
      BY <1>1, <2>4, <2>5
    <3> QED BY <2>4, <2>5, <3>1
  <2> QED BY <2>3, <2>6, <2>7
<1> HIDE DEF P
<1>4. T = {}
  <2> SUFFICES ASSUME T # {} PROVE FALSE
    OBVIOUS
  <2>1. T \subseteq Nat
    BY <1>1
  <2>2. PICK j \in T : \A m \in T : j =< m
    BY <2>1, Least
  <2>3. j \in k..Len(v) /\ ~P(j) /\ j # k
    BY <1>2, <2>2
  <2>4. j - 1 \in k..Len(v) /\ ~(j =< j - 1)
    BY <1>1, <2>3
  <2>5. P(j - 1)
    BY <2>2, <2>4
  <2> QED BY <1>3, <2>3, <2>5
<1>5. \A j \in k..Len(v) : P(j)
  BY <1>4
<1> QED BY <1>5 DEF P, e

\* Where the next rune of a value is, in what is written for the value.
LEMMA EscapedAt ==
    ASSUME NEW v \in Seq(Runes), NEW k \in 0..Len(v), k # Len(v),
           NEW E \in Seq(Runes), E = EscapedTo(v, Len(v)),
           NEW e \in Seq(Runes), e = EscapedTo(v, k),
           NEW f \in Seq(Runes), f = EscapedTo(v, k + 1), NEW r, r = v[k + 1]
    PROVE  /\ k + 1 \in 1..Len(v) /\ r \in Runes /\ Len(f) =< Len(E)
           /\ r \in Special => Len(f) = Len(e) + 2 /\ E[Len(e) + 1] = "\\" /\ E[Len(e) + 2] = r
           /\ r \notin Special => Len(f) = Len(e) + 1 /\ E[Len(e) + 1] = r
<1>1. PICK n \in 1..Len(v) : n = k + 1 /\ n - 1 = k
  <2>1. k + 1 \in 1..Len(v) /\ (k + 1) - 1 = k
    OBVIOUS
  <2> QED BY <2>1
<1>2. r \in Runes
  BY <1>1
<1>3. PICK b \in Seq(Runes) : b = Piece(r)
  BY <1>2, PieceLemma
<1>4. f = e \o b
  BY <1>1, <1>3, EscapedLemma
<1>5. /\ Len(f) = Len(e) + Len(b) /\ Len(e) \in Nat /\ Len(b) \in Nat
      /\ \A i \in 1..(Len(e) + Len(b)) : f[i] = IF i =< Len(e) THEN e[i] ELSE b[i - Len(e)]
  <2>1. /\ Len(e \o b) = Len(e) + Len(b) /\ Len(e) \in Nat /\ Len(b) \in Nat
        /\ \A i \in 1..(Len(e) + Len(b)) :
              (e \o b)[i] = IF i =< Len(e) THEN e[i] ELSE b[i - Len(e)]
    BY ConcatProperties
  <2> QED BY ONLY <1>4, <2>1
<1>6. Len(f) =< Len(E) /\ \A i \in 1..Len(f) : E[i] = f[i]
  <2>1. n \in 0..Len(v) /\ Len(v) \in n..Len(v)
    BY <1>1
  <2> QED BY <1>1, <2>1, EscapedPrefix
<1>7. CASE r \in Special
  <2>1. Len(b) = 2 /\ b[1] = "\\" /\ b[2] = r
    BY <1>2, <1>3, <1>7, PieceLemma
  <2>2. f[Len(e) + 1] = b[1] /\ f[Len(e) + 2] = b[2]
    <3>1. PICK i \in Nat, j \in Nat : i = Len(e) + 1 /\ j = Len(e) + 2
      BY <1>5
    <3>2. /\ i \in 1..(Len(e) + Len(b)) /\ ~(i =< Len(e)) /\ i - Len(e) = 1
          /\ j \in 1..(Len(e) + Len(b)) /\ ~(j =< Len(e)) /\ j - Len(e) = 2
      BY <1>5, <2>1, <3>1
    <3> QED BY <1>5, <3>1, <3>2
  <2>3. Len(e) + 1 \in 1..Len(f) /\ Len(e) + 2 \in 1..Len(f)
    BY <1>5, <2>1
  <2> QED BY <1>1, <1>2, <1>5, <1>6, <1>7, <2>1, <2>2, <2>3
<1>8. CASE r \notin Special
  <2>1. Len(b) = 1 /\ b[1] = r
    BY <1>2, <1>3, <1>8, PieceLemma
  <2>2. f[Len(e) + 1] = b[1]
    <3>1. PICK i \in Nat : i = Len(e) + 1
      BY <1>5
    <3>2. i \in 1..(Len(e) + Len(b)) /\ ~(i =< Len(e)) /\ i - Len(e) = 1
      BY <1>5, <2>1, <3>1
    <3> QED BY <1>5, <3>1, <3>2
  <2>3. Len(e) + 1 \in 1..Len(f)
    BY <1>5, <2>1
  <2> QED BY <1>1, <1>2, <1>5, <1>6, <1>8, <2>1, <2>2, <2>3
<1> QED BY <1>7, <1>8

\* The runes of three sequences put one behind the other.
LEMMA ThreeLemma ==
    ASSUME NEW a \in Seq(Runes), NEW b \in Seq(Runes), NEW c \in Seq(Runes), NEW s, s = (a \o b) \o c
    PROVE  /\ s \in Seq(Runes) /\ Len(s) = Len(a) + Len(b) + Len(c)
           /\ \A i \in 1..Len(a) : s[i] = a[i]
           /\ \A i \in 1..Len(b) : s[Len(a) + i] = b[i]
           /\ \A i \in 1..Len(c) : s[Len(a) + Len(b) + i] = c[i]
<1>1. PICK d \in Seq(Runes) : d = a \o b
  <2>1. a \o b \in Seq(Runes)
    BY ConcatProperties
  <2> QED BY <2>1
<1>2. /\ Len(d) = Len(a) + Len(b) /\ Len(a) \in Nat /\ Len(b) \in Nat /\ Len(c) \in Nat
      /\ \A i \in 1..(Len(a) + Len(b)) : d[i] = IF i =< Len(a) THEN a[i] ELSE b[i - Len(a)]
  <2>1. /\ Len(a \o b) = Len(a) + Len(b) /\ Len(a) \in Nat /\ Len(b) \in Nat /\ Len(c) \in Nat
        /\ \A i \in 1..(Len(a) + Len(b)) :
              (a \o b)[i] = IF i =< Len(a) THEN a[i] ELSE b[i - Len(a)]
    BY ConcatProperties
  <2> QED BY ONLY <1>1, <2>1
<1>3. /\ s \in Seq(Runes) /\ Len(s) = Len(d) + Len(c)
      /\ \A i \in 1..(Len(d) + Len(c)) : s[i] = IF i =< Len(d) THEN d[i] ELSE c[i - Len(d)]
  <2>1. /\ d \o c \in Seq(Runes) /\ Len(d \o c) = Len(d) + Len(c)
        /\ \A i \in 1..(Len(d) + Len(c)) :
              (d \o c)[i] = IF i =< Len(d) THEN d[i] ELSE c[i - Len(d)]
    BY ConcatProperties
  <2>2. s = d \o c
    BY <1>1
  <2> QED BY ONLY <2>1, <2>2
<1>4. ASSUME NEW i \in 1..Len(a)
      PROVE  s[i] = a[i]
  <2>1. /\ i \in 1..(Len(a) + Len(b)) /\ i =< Len(a)
        /\ i \in 1..(Len(d) + Len(c)) /\ i =< Len(d)
    BY <1>2
  <2> QED BY <1>2, <1>3, <2>1
<1>5. ASSUME NEW i \in 1..Len(b)
      PROVE  s[Len(a) + i] = b[i]
  <2>1. PICK j \in Nat : j = Len(a) + i
    BY <1>2
  <2>2. /\ j \in 1..(Len(a) + Len(b)) /\ ~(j =< Len(a)) /\ j - Len(a) = i
        /\ j \in 1..(Len(d) + Len(c)) /\ j =< Len(d)
    BY <1>2, <2>1
  <2> QED BY <1>2, <1>3, <2>1, <2>2
<1>6. ASSUME NEW i \in 1..Len(c)
      PROVE  s[Len(a) + Len(b) + i] = c[i]
  <2>1. PICK j \in Nat : j = Len(a) + Len(b) + i
    BY <1>2
  <2>2. j \in 1..(Len(d) + Len(c)) /\ ~(j =< Len(d)) /\ j - Len(d) = i
    BY <1>2, <2>1
  <2> QED BY <1>3, <2>1, <2>2
<1> QED BY <1>2, <1>3, <1>4, <1>5, <1>6

\* Nothing, or one rune that is a token of its own.
IsFollower(f) ==
    f \in Seq(Runes) /\ (f = <<>> \/ (Len(f) = 1 /\ f[1] \in Punctuation /\ f = <<f[1]>>))

LEMMA FollowersLemma == \A f \in Followers : IsFollower(f)
<1>1. \A c \in Punctuation : c \in Runes
  BY DEF Punctuation, Runes, Reserved
<1>2. ASSUME NEW c \in Punctuation
      PROVE  <<c>> \in Seq(Runes) /\ Len(<<c>>) = 1 /\ <<c>>[1] = c
  BY <1>1
<1>3. ASSUME NEW f \in Followers
      PROVE  f = <<>> \/ \E c \in Punctuation : f = <<c>>
  <2>1. f = <<>> \/ f = <<";">> \/ f = <<",">> \/ f = <<")">>
    BY DEF Followers
  <2>2. ";" \in Punctuation /\ "," \in Punctuation /\ ")" \in Punctuation
    BY DEF Punctuation
  <2> QED BY <2>1, <2>2, Zenon
<1>4. ASSUME NEW f \in Followers, f # <<>>
      PROVE  f \in Seq(Runes) /\ Len(f) = 1 /\ f[1] \in Punctuation /\ f = <<f[1]>>
  <2>1. PICK c \in Punctuation : f = <<c>>
    BY <1>3, <1>4
  <2>2. f \in Seq(Runes) /\ Len(f) = 1 /\ f[1] = c
    BY <1>2, <2>1
  <2> QED BY <2>1, <2>2, Zenon
<1>5. <<>> \in Seq(Runes)
  OBVIOUS
<1>6. ASSUME NEW f \in Followers
      PROVE  f \in Seq(Runes) /\ (f = <<>> \/ (Len(f) = 1 /\ f[1] \in Punctuation /\ f = <<f[1]>>))
  <2>1. CASE f = <<>>
    BY <1>5, <2>1
  <2>2. CASE f # <<>>
    BY <1>4, <2>2
  <2> QED BY <2>1, <2>2
<1> QED BY <1>6, Zenon DEF IsFollower

\* A value in quotes, rune by rune.
InQuotesIs(v, E, f, s) ==
    /\ s \in Seq(Runes) /\ Len(s) = Len(E) + 2 + Len(f) /\ Len(E) \in Nat /\ Len(f) \in Nat
    /\ s[1] = DoubleQuote /\ s[Len(E) + 2] = DoubleQuote /\ Behind(v) = Len(E) + 3
    /\ \A i \in 1..Len(E) : s[i + 1] = E[i]
    /\ \A i \in 1..Len(f) : s[Len(E) + 2 + i] = f[i]

LEMMA QuotedSource ==
    ASSUME NEW v \in Seq(Runes), IsQuoted(v), NEW f \in Followers, NEW s, s = Literal(v) \o f,
           NEW E \in Seq(Runes), E = EscapedTo(v, Len(v))
    PROVE  InQuotesIs(v, E, f, s)
<1>1. PICK q \in Seq(Runes) : q = <<DoubleQuote>> /\ Len(q) = 1 /\ q[1] = DoubleQuote
  <2>1. DoubleQuote \in Runes
    BY RuneLemma DEF DoubleQuote
  <2>2. <<DoubleQuote>> \in Seq(Runes)
    BY <2>1
  <2> QED BY <2>2
<1>2. PICK g \in Seq(Runes) : g = f
  BY FollowersLemma DEF IsFollower
<1>3. Len(g) \in Nat /\ Len(E) \in Nat
  OBVIOUS
<1>4. PICK l \in Seq(Runes) :
         /\ l = (q \o E) \o q /\ Len(l) = Len(q) + Len(E) + Len(q)
         /\ \A i \in 1..Len(q) : l[i] = q[i]
         /\ \A i \in 1..Len(E) : l[Len(q) + i] = E[i]
         /\ \A i \in 1..Len(q) : l[Len(q) + Len(E) + i] = q[i]
  <2>1. PICK k : k = (q \o E) \o q
    OBVIOUS
  <2>2. /\ k \in Seq(Runes) /\ Len(k) = Len(q) + Len(E) + Len(q)
        /\ \A i \in 1..Len(q) : k[i] = q[i]
        /\ \A i \in 1..Len(E) : k[Len(q) + i] = E[i]
        /\ \A i \in 1..Len(q) : k[Len(q) + Len(E) + i] = q[i]
    BY <2>1, ThreeLemma
  <2> QED BY <2>1, <2>2
<1>5. Literal(v) = l
  BY <1>1, <1>4, EscapedLemma DEF Literal, IsQuoted, DoubleQuote
<1>6. /\ Len(l) = Len(E) + 2 /\ l[1] = DoubleQuote /\ l[Len(E) + 2] = DoubleQuote
      /\ \A i \in 1..Len(E) : l[i + 1] = E[i]
  <2>1. 1 + Len(E) + 1 = Len(E) + 2 /\ \A i \in 1..Len(E) : 1 + i = i + 1
    BY <1>3
  <2>2. 1 \in 1..Len(q) /\ Len(q) + Len(E) + 1 = Len(E) + 2
    BY <1>1, <1>3
  <2>3. l[1] = DoubleQuote /\ l[Len(E) + 2] = DoubleQuote
    <3>1. l[1] = q[1] /\ l[Len(q) + Len(E) + 1] = q[1]
      BY <1>4, <2>2
    <3> QED BY <1>1, <2>2, <3>1
  <2>4. ASSUME NEW i \in 1..Len(E)
        PROVE  l[i + 1] = E[i]
    <3>1. l[Len(q) + i] = E[i]
      BY <1>4
    <3> QED BY <1>1, <2>1, <3>1
  <2>5. Len(l) = Len(E) + 2
    BY <1>1, <1>3, <1>4
  <2> QED BY <2>3, <2>4, <2>5
<1>7. /\ s \in Seq(Runes) /\ Len(s) = Len(l) + Len(g)
      /\ \A i \in 1..(Len(l) + Len(g)) : s[i] = IF i =< Len(l) THEN l[i] ELSE g[i - Len(l)]
  <2>1. /\ l \o g \in Seq(Runes) /\ Len(l \o g) = Len(l) + Len(g)
        /\ \A i \in 1..(Len(l) + Len(g)) :
              (l \o g)[i] = IF i =< Len(l) THEN l[i] ELSE g[i - Len(l)]
    BY ConcatProperties
  <2>2. s = l \o g
    BY <1>2, <1>5
  <2> QED BY ONLY <2>1, <2>2
<1>8. s[1] = DoubleQuote /\ s[Len(E) + 2] = DoubleQuote
  <2>1. PICK n \in Nat : n = Len(E) + 2
    BY <1>3
  <2>2. /\ 1 \in 1..(Len(l) + Len(g)) /\ 1 =< Len(l)
        /\ n \in 1..(Len(l) + Len(g)) /\ n =< Len(l)
    BY <1>3, <1>6, <2>1
  <2>3. s[1] = l[1] /\ s[n] = l[n]
    BY <1>7, <2>2
  <2> QED BY <1>6, <2>1, <2>3
<1>9. ASSUME NEW i \in 1..Len(E)
      PROVE  s[i + 1] = E[i]
  <2>1. PICK j \in Nat : j = i + 1
    BY <1>3
  <2>2. j \in 1..(Len(l) + Len(g)) /\ j =< Len(l)
    BY <1>3, <1>6, <2>1
  <2> QED BY <1>6, <1>7, <2>1, <2>2
<1>10. ASSUME NEW i \in 1..Len(g)
       PROVE  s[Len(E) + 2 + i] = g[i]
  <2>1. PICK j \in Nat : j = Len(E) + 2 + i
    BY <1>3
  <2>2. j \in 1..(Len(l) + Len(g)) /\ ~(j =< Len(l)) /\ j - Len(l) = i
    BY <1>3, <1>6, <2>1
  <2> QED BY <1>7, <2>1, <2>2
<1>11. Behind(v) = Len(E) + 3 /\ Len(s) = Len(E) + 2 + Len(g)
  <2>1. Len(E) + 2 + 1 = Len(E) + 3
    BY <1>3
  <2> QED BY <1>5, <1>6, <1>7, <2>1 DEF Behind
<1> QED BY <1>2, <1>3, <1>7, <1>8, <1>9, <1>10, <1>11 DEF InQuotesIs

\* A value without quotes, rune by rune.
BareIs(v, f, s) ==
    /\ s \in Seq(Runes) /\ Len(s) = Len(v) + Len(f) /\ Len(v) \in Nat /\ Len(f) \in Nat
    /\ Behind(v) = Len(v) + 1
    /\ \A i \in 1..Len(v) : s[i] = v[i]
    /\ \A i \in 1..Len(f) : s[Len(v) + i] = f[i]

LEMMA BareSource ==
    ASSUME NEW v \in Seq(Runes), ~IsQuoted(v), NEW f \in Followers, NEW s, s = Literal(v) \o f
    PROVE  BareIs(v, f, s)
<1>1. f \in Seq(Runes) /\ Len(f) \in Nat /\ Len(v) \in Nat
  BY FollowersLemma DEF IsFollower
<1>2. Literal(v) = v
  BY DEF Literal, IsQuoted
<1>3. /\ s \in Seq(Runes) /\ Len(s) = Len(v) + Len(f)
      /\ \A i \in 1..(Len(v) + Len(f)) : s[i] = IF i =< Len(v) THEN v[i] ELSE f[i - Len(v)]
  <2>1. /\ v \o f \in Seq(Runes) /\ Len(v \o f) = Len(v) + Len(f)
        /\ \A i \in 1..(Len(v) + Len(f)) :
              (v \o f)[i] = IF i =< Len(v) THEN v[i] ELSE f[i - Len(v)]
    BY <1>1, ConcatProperties
  <2> QED BY <1>2, <2>1
<1>4. ASSUME NEW i \in 1..Len(v)
      PROVE  s[i] = v[i]
  <2>1. i \in 1..(Len(v) + Len(f)) /\ i =< Len(v)
    BY <1>1
  <2> QED BY <1>3, <2>1
<1>5. ASSUME NEW i \in 1..Len(f)
      PROVE  s[Len(v) + i] = f[i]
  <2>1. PICK j \in Nat : j = Len(v) + i
    BY <1>1
  <2>2. j \in 1..(Len(v) + Len(f)) /\ ~(j =< Len(v)) /\ j - Len(v) = i
    BY <1>1, <2>1
  <2> QED BY <1>3, <2>1, <2>2
<1>6. Behind(v) = Len(v) + 1
  BY <1>2 DEF Behind
<1> QED BY <1>1, <1>3, <1>4, <1>5, <1>6 DEF BareIs

-----------------------------------------------------------------------------
(***************************************************************************)
(* A value is read back, phase by phase.                                   *)
(***************************************************************************)

LEMMA DoubleQuoteLemma ==
    /\ DoubleQuote \in Reserved \ {"~"} /\ DoubleQuote \notin Punctuation /\ DoubleQuote \in {"\"", "'"}
    /\ DoubleQuote # "!" /\ DoubleQuote # "=" /\ DoubleQuote # "\\" /\ DoubleQuote \notin {"<", ">"}
    /\ ~IsSpace(DoubleQuote)
BY DEF DoubleQuote, Reserved, Punctuation, IsSpace

\* An ordinary value without quotes has neither escapes nor white space.
LEMMA OrdinaryBare ==
    ASSUME NEW v \in Seq(Runes), Ordinary(v), ~IsQuoted(v)
    PROVE  /\ v # <<>>
           /\ \A i \in 1..Len(v) : v[i] \notin Reserved /\ ~IsSpace(v[i]) /\ v[i] # "\\"
<1>1. v # <<>> /\ ToSet(v) \cap {"\\", "nbsp"} = {} /\ ToSet(v) \cap (Reserved \cup {" "}) = {}
  BY DEF Ordinary, IsQuoted
<1>2. \A i \in 1..Len(v) : v[i] \in ToSet(v)
  BY DEF ToSet
<1>3. ASSUME NEW r \in ToSet(v)
      PROVE  r \notin Reserved /\ r # " " /\ r # "nbsp" /\ r # "\\"
  BY <1>1
<1> QED BY <1>1, <1>2, <1>3 DEF IsSpace

LEMMA TokenisedLemma ==
    ASSUME NEW v \in Seq(Runes), NEW f \in Followers
    PROVE  /\ f = <<>> => Tokenised(v, f) = <<ValueToken(v)>>
           /\ f # <<>> => Tokenised(v, f)
                            = Append(<<ValueToken(v)>>, [kind |-> "punct", text |-> <<f[1]>>])
<1> DEFINE T == {ValueToken(v)} \cup {[kind |-> "punct", text |-> <<f[1]>>]}
<1>1. PICK a \in Seq(T) : a = <<ValueToken(v)>>
  <2>1. <<ValueToken(v)>> \in Seq(T)
    OBVIOUS
  <2> QED BY <2>1
<1>2. CASE f = <<>>
  <2>1. [i \in DOMAIN f |-> [kind |-> "punct", text |-> <<f[i]>>]] = <<>>
    BY <1>2
  <2>2. a \o <<>> = a
    BY ConcatEmptySeq
  <2> QED BY <1>1, <1>2, <2>1, <2>2 DEF Tokenised
<1>3. CASE f # <<>>
  <2>1. f \in Seq(Runes) /\ Len(f) = 1
    BY <1>3, FollowersLemma DEF IsFollower
  <2>2. DOMAIN f = 1..1 /\ \A i \in 1..1 : i = 1
    BY <2>1
  <2> DEFINE p == [kind |-> "punct", text |-> <<f[1]>>]
  <2>3. [i \in DOMAIN f |-> [kind |-> "punct", text |-> <<f[i]>>]] = [i \in 1..1 |-> p]
    BY <2>2, Zenon
  <2>4. p \in T
    OBVIOUS
  <2> HIDE DEF p, T
  <2>5. [i \in 1..1 |-> p] = <<p>>
    OBVIOUS
  <2>6. Append(a, p) = a \o <<p>>
    BY <2>4, AppendIsConcat
  <2> QED BY <1>1, <1>3, <2>3, <2>5, <2>6 DEF Tokenised, p
<1> QED BY <1>2, <1>3

\* One rune of the value more.
LEMMA TextGrows ==
    ASSUME NEW v \in Seq(Runes), NEW k \in 0..Len(v), k # Len(v)
    PROVE  Append(SubSeq(v, 1, k), v[k + 1]) = SubSeq(v, 1, k + 1)
<1>1. PICK n \in 1..Len(v) : n = k + 1 /\ n - 1 = k
  <2>1. k + 1 \in 1..Len(v) /\ (k + 1) - 1 = k
    OBVIOUS
  <2> QED BY <2>1
<1>2. n \in 1..n /\ 1 \in 1..Len(v) /\ n \in 1..Len(v) /\ \A i \in 1..(n - 1) : i \in 1..Len(v)
  BY <1>1
<1>3. SubSeq(v, 1, n) = SubSeq(v, 1, n - 1) \o <<v[n]>>
  BY <1>2, SubSeqRecursiveSecond
<1>4. SubSeq(v, 1, n - 1) \in Seq(Runes)
  <2>1. \A i \in 1..(n - 1) : v[i] \in Runes
    BY <1>2
  <2>2. 1 \in Int /\ n - 1 \in Int
    BY <1>1
  <2> QED BY <2>1, <2>2, SubSeqProperties
<1>5. v[n] \in Runes
  BY <1>1
<1>6. Append(SubSeq(v, 1, n - 1), v[n]) = SubSeq(v, 1, n - 1) \o <<v[n]>>
  BY <1>4, <1>5, AppendIsConcat
<1> QED BY <1>1, <1>3, <1>6

LEMMA BegunStep ==
    ASSUME Types, NEW v \in Seq(Runes), NEW f \in Followers, src = Literal(v) \o f, Ordinary(v),
           Begun, Next
    PROVE  InQuotes(v)' \/ InBare(v)'
<1>1. mode = "next" /\ pos = 1 /\ text = <<>> /\ toks = <<>>
  BY DEF Begun
<1>2. Len(v) \in Nat /\ 0 \in 0..Len(v) /\ SubSeq(v, 1, 0) = <<>>
  BY SubSeqEmpty
<1>3. CASE IsQuoted(v)
  <2>1. PICK E \in Seq(Runes) : E = EscapedTo(v, Len(v))
    <3>1. Len(v) \in 0..Len(v)
      BY <1>2
    <3> QED BY <3>1, EscapedLemma
  <2>2. Len(src) = Len(E) + 2 + Len(f) /\ Len(E) \in Nat /\ Len(f) \in Nat /\ src[1] = DoubleQuote
    <3>1. InQuotesIs(v, E, f, src)
      BY <1>3, <2>1, QuotedSource
    <3> QED BY <3>1 DEF InQuotesIs
  <2>3. More /\ Peek = DoubleQuote
    BY <1>1, <2>2 DEF More, Peek
  <2>4. OpenQuote
    BY <1>1, <2>3, DoubleQuoteLemma
       DEF Next, SkipSpace, EndOfInput, Punctuate, Bang, Angle, Equals, Word, Quoted, OpenBare, Bare,
           Stopped
  <2>5. mode' = "quoted" /\ quote' = DoubleQuote /\ pos' = 2 /\ text' = <<>> /\ toks' = <<>>
    <3>1. mode' = "quoted" /\ quote' = Peek /\ pos' = pos + 1 /\ text' = text /\ toks' = toks
      BY <2>4, Zenon DEF OpenQuote, Enter
    <3> QED BY <1>1, <2>3, <3>1
  <2>6. EscapedTo(v, 0) = <<>> /\ 2 = Len(<<>>) + 2
    BY EscapedLemma
  <2>7. text' = SubSeq(v, 1, 0) /\ pos' = Len(EscapedTo(v, 0)) + 2
    BY <1>2, <2>5, <2>6
  <2>8. \E k \in 0..Len(v) : text' = SubSeq(v, 1, k) /\ pos' = Len(EscapedTo(v, k)) + 2
    BY <1>2, <2>7, Zenon
  <2> QED BY <1>3, <2>5, <2>8 DEF InQuotes
<1>4. CASE ~IsQuoted(v)
  <2>1. Len(src) = Len(v) + Len(f) /\ Len(f) \in Nat /\ \A i \in 1..Len(v) : src[i] = v[i]
    <3>1. BareIs(v, f, src)
      BY <1>4, BareSource
    <3> QED BY <3>1 DEF BareIs
  <2>2. v # <<>> /\ 1 \in 1..Len(v) /\ v[1] \notin Reserved /\ ~IsSpace(v[1]) /\ v[1] # "\\"
    <3>1. v # <<>>
      BY <1>4, OrdinaryBare
    <3>2. 1 \in 1..Len(v)
      BY <3>1
    <3> QED BY <1>4, <3>1, <3>2, OrdinaryBare
  <2>3. More /\ Peek \notin Reserved /\ ~IsSpace(Peek)
    BY <1>1, <1>2, <2>1, <2>2 DEF More, Peek
  <2>4. OpenBare
    BY <1>1, <2>3, RuneLemma
       DEF Next, SkipSpace, EndOfInput, Punctuate, Bang, Angle, Equals, Word, OpenQuote, Quoted, Bare,
           Stopped
  <2>5. mode' = "bare" /\ pos' = 1 /\ text' = <<>> /\ toks' = <<>>
    BY <1>1, <2>4 DEF OpenBare, Enter
  <2>6. text' = SubSeq(v, 1, 0) /\ pos' = 0 + 1
    BY <1>2, <2>5
  <2>7. \E k \in 0..Len(v) : text' = SubSeq(v, 1, k) /\ pos' = k + 1
    BY <1>2, <2>6, Zenon
  <2> QED BY <1>4, <2>5, <2>7 DEF InBare
<1> QED BY <1>3, <1>4

LEMMA InQuotesStep ==
    ASSUME Types, NEW v \in Seq(Runes), NEW f \in Followers, src = Literal(v) \o f,
           InQuotes(v), Next
    PROVE  InQuotes(v)' \/ ValueRead(v)'
<1>1. IsQuoted(v) /\ mode = "quoted" /\ quote = DoubleQuote /\ toks = <<>>
  BY DEF InQuotes
<1>2. PICK k \in 0..Len(v) : text = SubSeq(v, 1, k) /\ pos = Len(EscapedTo(v, k)) + 2
  BY DEF InQuotes
<1>3. Len(v) \in Nat /\ k \in Nat /\ Len(v) \in 0..Len(v)
  <2>1. Len(v) \in Nat
    OBVIOUS
  <2> QED BY <2>1
<1>4. PICK E \in Seq(Runes) : E = EscapedTo(v, Len(v))
  BY <1>3, EscapedLemma
<1>5. PICK e \in Seq(Runes) : e = EscapedTo(v, k)
  BY EscapedLemma
<1>6. InQuotesIs(v, E, f, src)
  BY <1>1, <1>4, QuotedSource
<1>7. /\ Len(src) = Len(E) + 2 + Len(f) /\ Len(E) \in Nat /\ Len(f) \in Nat
      /\ src[Len(E) + 2] = DoubleQuote /\ Behind(v) = Len(E) + 3
      /\ \A i \in 1..Len(E) : src[i + 1] = E[i]
  BY <1>6 DEF InQuotesIs
<1>8. Quoted
  BY <1>1, Zenon
     DEF Next, SkipSpace, EndOfInput, Punctuate, Bang, Angle, Equals, Word, OpenQuote, OpenBare, Bare,
         Stopped
<1>9. Len(e) \in Nat /\ pos = Len(e) + 2
  BY <1>2, <1>5
<1>10. CASE k = Len(v)
  <2>1. pos = Len(E) + 2
    BY <1>2, <1>4, <1>10
  <2>2. More /\ Peek = DoubleQuote /\ Peek = quote /\ Peek # "\\"
    <3>1. More
      BY <1>7, <2>1 DEF More
    <3> QED BY <1>1, <1>7, <2>1, <3>1, DoubleQuoteLemma DEF Peek
  <2>3. Emit("value", text, 1)
    BY <1>8, <2>2, Zenon DEF Quoted, Escape
  <2>4. text = v
    BY <1>2, <1>10, SubSeqFull
  <2>5. mode' = "next" /\ text' = <<>> /\ toks' = Append(toks, ValueToken(v)) /\ pos' = pos + 1
    BY <2>3, <2>4, Zenon DEF Emit, ValueToken
  <2>6. pos' = Behind(v)
    BY <1>7, <2>1, <2>5
  <2>7. toks' = <<ValueToken(v)>>
    BY <1>1, <2>5
  <2> QED BY <2>5, <2>6, <2>7, Zenon DEF ValueRead
<1>11. CASE k # Len(v)
  <2>1. PICK n \in 1..Len(v) : n = k + 1
    <3>1. k + 1 \in 1..Len(v)
      BY <1>3, <1>11
    <3> QED BY <3>1
  <2>2. PICK g \in Seq(Runes) : g = EscapedTo(v, k + 1)
    <3>1. k + 1 \in 0..Len(v)
      BY <1>3, <1>11
    <3> QED BY <3>1, EscapedLemma
  <2>3. PICK r : r = v[k + 1]
    OBVIOUS
  <2>4. /\ r \in Runes /\ Len(g) =< Len(E)
        /\ r \in Special => Len(g) = Len(e) + 2 /\ E[Len(e) + 1] = "\\" /\ E[Len(e) + 2] = r
        /\ r \notin Special => Len(g) = Len(e) + 1 /\ E[Len(e) + 1] = r
    BY <1>4, <1>5, <1>11, <2>2, <2>3, EscapedAt
  <2>5. Append(text, r) = SubSeq(v, 1, n)
    BY <1>2, <1>11, <2>1, <2>3, TextGrows
  <2>6. ASSUME text' = Append(text, r), pos' = Len(g) + 2, mode' = mode, quote' = quote, toks' = toks
        PROVE  InQuotes(v)'
    <3>1. text' = SubSeq(v, 1, n) /\ pos' = Len(EscapedTo(v, n)) + 2 /\ n \in 0..Len(v)
      BY <1>3, <2>1, <2>2, <2>5, <2>6
    <3>2. \E j \in 0..Len(v) : text' = SubSeq(v, 1, j) /\ pos' = Len(EscapedTo(v, j)) + 2
      BY <3>1, Zenon
    <3>3. mode' = "quoted" /\ quote' = DoubleQuote /\ toks' = <<>>
      BY <1>1, <2>6
    <3> QED BY <1>1, <3>2, <3>3, Zenon DEF InQuotes
  <2>7. CASE r \in Special
    <3>1. Len(g) = Len(e) + 2 /\ E[Len(e) + 1] = "\\" /\ E[Len(e) + 2] = r
      BY <2>4, <2>7
    <3>2. PICK i \in 1..Len(E), j \in 1..Len(E) : i = Len(e) + 1 /\ j = Len(e) + 2
      <4>1. Len(e) + 1 \in 1..Len(E) /\ Len(e) + 2 \in 1..Len(E)
        <5>1. Len(E) \in Nat /\ Len(e) \in Nat /\ Len(e) + 2 =< Len(E)
          BY <1>7, <1>9, <2>4, <3>1
        <5> QED BY ONLY <5>1
      <4> QED BY <4>1
    <3>3. src[i + 1] = "\\" /\ src[j + 1] = r /\ i + 1 = pos /\ j + 1 = pos + 1
      <4>1. i + 1 = pos /\ j + 1 = pos + 1
        BY <1>9, <3>2
      <4> QED BY <1>7, <3>1, <3>2, <4>1
    <3>4. More /\ pos < Len(src) /\ Peek = "\\" /\ src[pos + 1] = r
      <4>1. More /\ pos < Len(src)
        BY <1>7, <1>9, <3>2 DEF More
      <4> QED BY <3>3, <4>1 DEF Peek
    <3>5. Peek # quote
      BY <1>1, <3>4, DoubleQuoteLemma
    <3>6. Take(src[pos + 1], 2)
      BY <1>8, <3>4, <3>5, Zenon DEF Quoted, Escape
    <3>7. text' = Append(text, r) /\ pos' = pos + 2 /\ mode' = mode /\ quote' = quote /\ toks' = toks
      BY <3>4, <3>6, Zenon DEF Take
    <3>8. pos' = Len(g) + 2
      BY <1>9, <3>1, <3>7
    <3> QED BY <2>6, <3>7, <3>8
  <2>8. CASE r \notin Special
    <3>1. Len(g) = Len(e) + 1 /\ E[Len(e) + 1] = r
      BY <2>4, <2>8
    <3>2. PICK i \in 1..Len(E) : i = Len(e) + 1
      <4>1. Len(e) + 1 \in 1..Len(E)
        <5>1. Len(E) \in Nat /\ Len(e) \in Nat /\ Len(e) + 1 =< Len(E)
          BY <1>7, <1>9, <2>4, <3>1
        <5> QED BY ONLY <5>1
      <4> QED BY <4>1
    <3>3. src[i + 1] = r /\ i + 1 = pos
      <4>1. i + 1 = pos
        BY <1>9, <3>2
      <4> QED BY <1>7, <3>1, <3>2, <4>1
    <3>4. More /\ Peek = r
      <4>1. More
        BY <1>7, <1>9, <3>2 DEF More
      <4> QED BY <3>3, <4>1 DEF Peek
    <3>5. r # "\\" /\ r # quote
      BY <1>1, <2>8 DEF Special, DoubleQuote
    <3>6. Take(Peek, 1)
      BY <1>8, <3>4, <3>5, Zenon DEF Quoted, Escape
    <3>7. text' = Append(text, r) /\ pos' = pos + 1 /\ mode' = mode /\ quote' = quote /\ toks' = toks
      BY <3>4, <3>6, Zenon DEF Take
    <3>8. pos' = Len(g) + 2
      BY <1>9, <3>1, <3>7
    <3> QED BY <2>6, <3>7, <3>8
  <2> QED BY <2>7, <2>8
<1> QED BY <1>10, <1>11

LEMMA InBareStep ==
    ASSUME Types, NEW v \in Seq(Runes), NEW f \in Followers, src = Literal(v) \o f, Ordinary(v),
           InBare(v), Next
    PROVE  InBare(v)' \/ ValueRead(v)'
<1>1. ~IsQuoted(v) /\ mode = "bare" /\ toks = <<>>
  BY DEF InBare
<1>2. PICK k \in 0..Len(v) : text = SubSeq(v, 1, k) /\ pos = k + 1
  BY DEF InBare
<1>3. /\ Len(src) = Len(v) + Len(f) /\ Len(v) \in Nat /\ Len(f) \in Nat /\ Behind(v) = Len(v) + 1
      /\ \A i \in 1..Len(v) : src[i] = v[i]
      /\ \A i \in 1..Len(f) : src[Len(v) + i] = f[i]
  <2>1. BareIs(v, f, src)
    BY <1>1, BareSource
  <2> QED BY <2>1 DEF BareIs
<1>4. /\ v # <<>>
      /\ \A i \in 1..Len(v) : v[i] \notin Reserved /\ ~IsSpace(v[i]) /\ v[i] # "\\"
  BY <1>1, OrdinaryBare
<1>5. Bare
  BY <1>1, Zenon
     DEF Next, SkipSpace, EndOfInput, Punctuate, Bang, Angle, Equals, Word, OpenQuote, Quoted, OpenBare,
         Stopped
<1>6. CASE k = Len(v)
  <2>1. pos = Len(v) + 1 /\ text = v
    BY <1>2, <1>6, SubSeqFull
  <2>2. BareEnds /\ ~(More /\ Peek = "\\")
    <3>1. CASE f = <<>>
      <4>1. ~More
        BY <1>3, <2>1, <3>1 DEF More
      <4> QED BY <4>1 DEF BareEnds
    <3>2. CASE f # <<>>
      <4>1. 1 \in 1..Len(f) /\ f[1] \in Punctuation
        BY <3>2, FollowersLemma DEF IsFollower
      <4>2. Peek = f[1]
        BY <1>3, <2>1, <4>1 DEF Peek
      <4>3. Peek \in Reserved /\ Peek # "\\"
        BY <4>1, <4>2, RuneLemma
      <4> QED BY <4>3 DEF BareEnds
    <3> QED BY <3>1, <3>2
  <2>3. Emit("value", text, 0)
    BY <1>4, <1>5, <2>1, <2>2, Zenon DEF Bare, Escape
  <2>4. mode' = "next" /\ text' = <<>> /\ toks' = Append(toks, ValueToken(v)) /\ pos' = pos + 0
    BY <2>1, <2>3, Zenon DEF Emit, ValueToken
  <2>5. pos' = Behind(v)
    BY <1>3, <2>1, <2>4
  <2>6. toks' = <<ValueToken(v)>>
    BY <1>1, <2>4
  <2> QED BY <2>4, <2>5, <2>6, Zenon DEF ValueRead
<1>7. CASE k # Len(v)
  <2>1. PICK n \in 1..Len(v) : n = k + 1
    <3>1. k + 1 \in 1..Len(v)
      BY <1>3, <1>7
    <3> QED BY <3>1
  <2>2. More /\ Peek = v[n]
    <3>1. pos = n /\ src[n] = v[n] /\ More
      BY <1>2, <1>3, <2>1 DEF More
    <3> QED BY <3>1 DEF Peek
  <2>3. ~BareEnds /\ Peek # "\\"
    BY <1>4, <2>2 DEF BareEnds
  <2>4. Take(Peek, 1)
    BY <1>5, <2>3, Zenon DEF Bare, Escape
  <2>5. text' = Append(text, v[n]) /\ pos' = pos + 1 /\ mode' = mode /\ toks' = toks
    BY <2>2, <2>4, Zenon DEF Take
  <2>6. text' = SubSeq(v, 1, n) /\ pos' = n + 1 /\ n \in 0..Len(v)
    <3>1. Append(text, v[n]) = SubSeq(v, 1, n)
      BY <1>2, <1>7, <2>1, TextGrows
    <3>2. text' = SubSeq(v, 1, n)
      BY <2>5, <3>1, Zenon
    <3>3. pos' = n + 1
      BY <1>2, <1>3, <2>1, <2>5
    <3>4. n \in 0..Len(v)
      BY <1>2, <2>1
    <3> QED BY <3>2, <3>3, <3>4
  <2>7. \E j \in 0..Len(v) : text' = SubSeq(v, 1, j) /\ pos' = j + 1
    BY <2>6, Zenon
  <2> QED BY <1>1, <2>5, <2>7 DEF InBare
<1> QED BY <1>6, <1>7

\* Where the value ends and what follows it, in quotes or not.
BehindIs(v, f) ==
    /\ Behind(v) \in Nat /\ Len(f) \in Nat /\ Len(src) + 1 = Behind(v) + Len(f)
    /\ f # <<>> => Len(f) = 1 /\ f[1] \in Punctuation /\ src[Behind(v)] = f[1]

LEMMA BehindLemma ==
    ASSUME NEW v \in Seq(Runes), NEW f \in Followers, src = Literal(v) \o f
    PROVE  BehindIs(v, f)
<1>1. Len(f) \in Nat /\ (f # <<>> => Len(f) = 1 /\ f[1] \in Punctuation /\ 1 \in 1..Len(f))
  BY FollowersLemma DEF IsFollower
<1>2. CASE IsQuoted(v)
  <2>1. PICK E \in Seq(Runes) : E = EscapedTo(v, Len(v))
    <3>1. Len(v) \in 0..Len(v)
      OBVIOUS
    <3> QED BY <3>1, EscapedLemma
  <2>2. InQuotesIs(v, E, f, src)
    BY <1>2, <2>1, QuotedSource
  <2>3. /\ Len(src) = Len(E) + 2 + Len(f) /\ Len(E) \in Nat /\ Behind(v) = Len(E) + 3
        /\ \A i \in 1..Len(f) : src[Len(E) + 2 + i] = f[i]
    BY <2>2 DEF InQuotesIs
  <2>4. f # <<>> => src[Len(E) + 2 + 1] = f[1]
    BY <1>1, <2>3
  <2>5. Len(E) + 2 + 1 = Len(E) + 3 /\ Len(src) + 1 = Behind(v) + Len(f)
    BY <1>1, <2>3
  <2> QED BY <1>1, <2>3, <2>4, <2>5 DEF BehindIs
<1>3. CASE ~IsQuoted(v)
  <2>1. /\ Len(src) = Len(v) + Len(f) /\ Len(v) \in Nat /\ Behind(v) = Len(v) + 1
        /\ \A i \in 1..Len(f) : src[Len(v) + i] = f[i]
    <3>1. BareIs(v, f, src)
      BY <1>3, BareSource
    <3> QED BY <3>1 DEF BareIs
  <2>2. Len(src) + 1 = Behind(v) + Len(f)
    BY <1>1, <2>1
  <2> QED BY <1>1, <2>1, <2>2 DEF BehindIs
<1> QED BY <1>2, <1>3

LEMMA ValueReadStep ==
    ASSUME Types, NEW v \in Seq(Runes), NEW f \in Followers, src = Literal(v) \o f,
           ValueRead(v), Next
    PROVE  AllRead(v, f)'
<1>1. mode = "next" /\ text = <<>> /\ toks = <<ValueToken(v)>> /\ pos = Behind(v)
  BY DEF ValueRead
<1>2. /\ Behind(v) \in Nat /\ Len(f) \in Nat /\ Len(src) + 1 = Behind(v) + Len(f) /\ Len(src) \in Nat
      /\ f # <<>> => Len(f) = 1 /\ f[1] \in Punctuation /\ src[Behind(v)] = f[1]
  <2>1. BehindIs(v, f)
    BY BehindLemma
  <2> QED BY <2>1 DEF BehindIs, Types
<1>3. CASE f = <<>>
  <2>1. pos = Len(src) + 1
    BY <1>1, <1>2, <1>3
  <2>2. ~More
    BY <1>2, <2>1 DEF More
  <2>3. EndOfInput
    BY <1>1, <2>2
       DEF Next, SkipSpace, Punctuate, Bang, Angle, Equals, Word, OpenQuote, Quoted, OpenBare, Bare,
           Stopped
  <2>4. mode' = "end" /\ toks' = toks /\ pos' = pos /\ src' = src
    BY <2>3 DEF EndOfInput
  <2>5. toks' = Tokenised(v, f)
    BY <1>1, <1>3, <2>4, TokenisedLemma
  <2> QED BY <2>1, <2>4, <2>5 DEF AllRead
<1>4. CASE f # <<>>
  <2>1. Len(f) = 1 /\ f[1] \in Punctuation /\ src[pos] = f[1] /\ pos = Len(src)
    <3>1. Len(f) = 1 /\ f[1] \in Punctuation /\ src[pos] = f[1]
      BY <1>1, <1>2, <1>4, Zenon
    <3>2. pos \in Nat /\ Len(src) + 1 = pos + 1
      BY <1>1, <1>2, <3>1
    <3> QED BY <1>2, <3>1, <3>2
  <2>2. More /\ Peek = f[1] /\ Peek \in Punctuation
    BY <1>2, <2>1 DEF More, Peek
  <2>3. Peek \in Reserved \ {"~"} /\ Peek \notin {"<", ">", "!", "=", "\"", "'"} /\ ~IsSpace(Peek)
    BY <2>2, RuneLemma
  <2>4. Punctuate
    BY <1>1, <2>2, <2>3
       DEF Next, SkipSpace, EndOfInput, Bang, Angle, Equals, Word, OpenQuote, Quoted, OpenBare, Bare,
           Stopped
  <2>5. Emit("punct", <<f[1]>>, 1)
    BY <2>2, <2>4 DEF Punctuate
  <2>6. /\ mode' = "next" /\ toks' = Append(toks, [kind |-> "punct", text |-> <<f[1]>>])
        /\ pos' = pos + 1 /\ src' = src
    BY <2>5, Zenon DEF Emit
  <2>7. toks' = Tokenised(v, f)
    BY <1>1, <1>4, <2>6, TokenisedLemma
  <2>8. pos' = Len(src) + 1
    BY <2>1, <2>6
  <2> QED BY <2>6, <2>7, <2>8 DEF AllRead
<1> QED BY <1>3, <1>4

LEMMA AllReadStep ==
    ASSUME Types, NEW v, NEW f, AllRead(v, f), Next
    PROVE  AllRead(v, f)'
<1>1. mode \in {"next", "end"} /\ toks = Tokenised(v, f) /\ pos = Len(src) + 1 /\ Len(src) \in Nat
  BY DEF AllRead, Types
<1>2. ~More
  BY <1>1 DEF More
<1>3. EndOfInput \/ Stopped
  BY <1>1, <1>2
     DEF Next, SkipSpace, Punctuate, Bang, Angle, Equals, Word, OpenQuote, Quoted, OpenBare, Bare
<1>4. toks' = toks /\ pos' = pos /\ src' = src /\ mode' \in {"next", "end"}
  BY <1>1, <1>3 DEF EndOfInput, Stopped, vars
<1> QED BY <1>1, <1>4 DEF AllRead

-----------------------------------------------------------------------------
(***************************************************************************)
(* The invariant holds.                                                    *)
(***************************************************************************)

LEMMA ReadBackStep ==
    ASSUME Types, Known, ReadBack, [Next]_vars, value' = value
    PROVE  ReadBack'
<1> SUFFICES ASSUME value.known, Ordinary(value.v)
             PROVE  \/ Begun' \/ InQuotes(value.v)' \/ InBare(value.v)'
                    \/ ValueRead(value.v)' \/ AllRead(value.v, value.after)'
  BY Zenon DEF ReadBack, InQuotes, InBare, ValueRead, AllRead
<1>1. PICK v \in Seq(Runes), f \in Followers : v = value.v /\ f = value.after
  BY RunesAssumption DEF Known
<1>2. src = Literal(v) \o f /\ Ordinary(v)
  BY <1>1 DEF Known
<1>3. Begun \/ InQuotes(v) \/ InBare(v) \/ ValueRead(v) \/ AllRead(v, f)
  BY <1>1 DEF ReadBack
<1>4. Begun' \/ InQuotes(v)' \/ InBare(v)' \/ ValueRead(v)' \/ AllRead(v, f)'
  <2>1. CASE Next
    <3>1. CASE Begun
      BY <1>2, <2>1, <3>1, BegunStep
    <3>2. CASE InQuotes(v)
      BY <1>2, <2>1, <3>2, InQuotesStep
    <3>3. CASE InBare(v)
      BY <1>2, <2>1, <3>3, InBareStep
    <3>4. CASE ValueRead(v)
      BY <1>2, <2>1, <3>4, ValueReadStep
    <3>5. CASE AllRead(v, f)
      BY <2>1, <3>5, AllReadStep
    <3> QED BY <1>3, <3>1, <3>2, <3>3, <3>4, <3>5
  <2>2. CASE UNCHANGED vars
    BY <1>3, <2>2, Zenon DEF vars, Begun, InQuotes, InBare, ValueRead, AllRead
  <2> QED BY <2>1, <2>2
<1> QED BY <1>1, <1>4, Zenon DEF InQuotes, InBare, ValueRead, AllRead

LEMMA Unchanging == ASSUME [Next]_vars PROVE value' = value /\ src' = src
BY Zenon
   DEF Next, vars, SkipSpace, EndOfInput, Punctuate, Bang, Angle, Equals, Word, OpenQuote, Quoted,
       OpenBare, Bare, Stopped, Escape, Emit, Fail, Enter, Take

LEMMA InitLemma == Init => IInv
<1> SUFFICES ASSUME Init PROVE IInv
  OBVIOUS
<1>1. pos = 1 /\ mode = "next" /\ text = <<>> /\ toks = <<>>
  BY DEF Init
<1>2. /\ src \in Seq(Runes)
      /\ Known
  <2>1. CASE value = None /\ src \in Raw
    BY <2>1, RunesAssumption DEF Known, None
  <2>2. CASE \E v \in Literals, f \in Followers :
               /\ value = [v |-> v, after |-> f, known |-> TRUE]
               /\ src = Literal(v) \o f
    <3>1. PICK v \in Literals, f \in Followers :
             /\ value = [v |-> v, after |-> f, known |-> TRUE]
             /\ src = Literal(v) \o f
      BY <2>2
    <3>2. value.v = v /\ value.after = f
      BY <3>1
    <3>3. Known
      BY <3>1, <3>2 DEF Known
    <3>4. v \in Seq(Runes)
      BY RunesAssumption
    <3>5. CASE IsQuoted(v)
      <4>1. PICK E \in Seq(Runes) : E = EscapedTo(v, Len(v))
        <5>1. Len(v) \in 0..Len(v)
          BY <3>4
        <5> QED BY <3>4, <5>1, EscapedLemma
      <4>2. InQuotesIs(v, E, f, src)
        BY <3>1, <3>4, <3>5, <4>1, QuotedSource
      <4> QED BY <3>3, <4>2 DEF InQuotesIs
    <3>6. CASE ~IsQuoted(v)
      <4>1. BareIs(v, f, src)
        BY <3>1, <3>4, <3>6, BareSource
      <4> QED BY <3>3, <4>1 DEF BareIs
    <3> QED BY <3>5, <3>6
  <2> QED BY <2>1, <2>2 DEF Init
<1>3. Types
  <2>1. Len(src) \in Nat /\ <<>> \in Seq(Runes) /\ <<>> \in Seq(TokenType)
    BY <1>2
  <2>2. 1 \in 1..(Len(src) + 1)
    BY <2>1
  <2> QED BY <1>1, <1>2, <2>1, <2>2 DEF Types
<1>4. Kept
  <2>1. Read("next", <<>>, <<>>) = <<>>
    <3>1. FlattenSeq(TextsOf(<<>>)) = <<>>
      <4>1. <<>> \in Seq(TokenType)
        OBVIOUS
      <4> QED BY <4>1, TextsLemma
    <3>2. <<>> \o <<>> = <<>>
      OBVIOUS
    <3> QED BY <3>1, <3>2 DEF Read
  <2>2. Unspaced(0) = <<>>
    BY <1>3, UnspacedLemma
  <2>3. 1 - 1 = 0
    OBVIOUS
  <2> QED BY <1>1, <2>1, <2>2, <2>3 DEF Kept
<1>5. ReadBack
  BY <1>1 DEF ReadBack, Begun
<1> QED BY <1>2, <1>3, <1>4, <1>5 DEF IInv

(* The invariant, for every set of expressions and of values.              *)
THEOREM Invariance == Spec => []IInv
<1>1. ASSUME IInv, [Next]_vars
      PROVE  IInv'
  <2>1. Types /\ Kept /\ Known /\ ReadBack
    BY <1>1 DEF IInv
  <2>2. value' = value /\ src' = src
    BY <1>1, Unchanging
  <2>3. Types' /\ Kept'
    BY <1>1, <2>1, KeptStep
  <2>4. Known'
    BY <2>1, <2>2, Zenon DEF Known
  <2>5. ReadBack'
    BY <1>1, <2>1, <2>2, ReadBackStep
  <2> QED BY <2>3, <2>4, <2>5 DEF IInv
<1> QED BY <1>1, InitLemma, PTL DEF Spec

(* No rune of an expression without quotes and escapes is lost, read twice *)
(* or changed (lex.go:41-175).                                             *)
THEOREM NoRuneIsLost == Spec => []Verbatim
<1>1. IInv => Verbatim
  <2> SUFFICES ASSUME IInv, mode = "end", Plain
               PROVE  FlattenSeq(TextsOf(toks)) = Unspaced(Len(src))
    BY Zenon DEF Verbatim, Plain, TextsOf
  <2>1. text = <<>> /\ pos = Len(src) + 1 /\ Len(src) \in Nat /\ toks \in Seq(TokenType)
    BY DEF IInv, Types
  <2>2. Read("end", toks, <<>>) = Unspaced(pos - 1)
    BY <2>1 DEF IInv, Kept
  <2>3. FlattenSeq(TextsOf(toks)) \in Seq(Runes)
    BY <2>1, TextsLemma
  <2>4. FlattenSeq(TextsOf(toks)) \o <<>> = FlattenSeq(TextsOf(toks))
    BY <2>3, ConcatEmptySeq
  <2>5. pos - 1 = Len(src)
    BY <2>1
  <2> QED BY <2>2, <2>4, <2>5 DEF Read
<1> QED BY <1>1, Invariance, PTL

(* What Canonical writes for a value the lexer can read is read back as    *)
(* that value and what follows it (canonical.go:54-65).                    *)
THEOREM ValuesAreReadBack == Spec => []OrdinaryReadable
<1>1. IInv => OrdinaryReadable
  <2> SUFFICES ASSUME IInv, value.known, Ordinary(value.v)
               PROVE  mode # "error" /\ (mode = "end" => toks = Expected)
    BY DEF OrdinaryReadable
  <2>1. \/ Begun \/ InQuotes(value.v) \/ InBare(value.v)
        \/ ValueRead(value.v) \/ AllRead(value.v, value.after)
    BY DEF IInv, ReadBack
  <2>2. Expected = Tokenised(value.v, value.after)
    BY DEF Expected, Tokenised, ValueToken
  <2> QED BY <2>1, <2>2 DEF Begun, InQuotes, InBare, ValueRead, AllRead
<1> QED BY <1>1, Invariance, PTL

-----------------------------------------------------------------------------
(* The sets of trees. *)

GroupsOver(T, K) == [k : K, nodes : Seq(T) \ {<<>>}]

\* f is TreesOf on the first levels.
Grows(f, L, K, n) ==
    f = [m \in 0..n |-> IF m = 0 THEN L ELSE GroupsOver(f[m - 1], K) \cup f[m - 1]]

LEMMA GrowsExists ==
    ASSUME NEW L, NEW K, NEW k \in Nat
    PROVE  \E f : Grows(f, L, K, k)
<1> DEFINE T == {n \in Nat : ~\E f : Grows(f, L, K, n)}
<1>1. SUFFICES ASSUME T # {} PROVE FALSE
  OBVIOUS
<1>2. PICK n \in T : \A m \in T : n =< m
  BY <1>1, Least
<1>3. n # 0
  <2> DEFINE f == [m \in 0..0 |-> L]
  <2>1. f = [m \in 0..0 |-> IF m = 0 THEN L ELSE GroupsOver(f[m - 1], K) \cup f[m - 1]]
    OBVIOUS
  <2> HIDE DEF f
  <2>2. Grows(f, L, K, 0)
    BY <2>1 DEF Grows
  <2> QED BY <2>2
<1>4. n \in Nat /\ n - 1 \in Nat /\ n - 1 \notin T
  BY <1>2, <1>3
<1>5. PICK f : Grows(f, L, K, n - 1)
  BY <1>4
<1> DEFINE g == [m \in 0..n |-> IF m < n THEN f[m] ELSE GroupsOver(f[n - 1], K) \cup f[n - 1]]
<1>6. ASSUME NEW m \in 0..n
      PROVE  g[m] = IF m = 0 THEN L ELSE GroupsOver(g[m - 1], K) \cup g[m - 1]
  <2>1. CASE m = n
    BY <1>3, <1>4, <2>1
  <2>2. CASE m < n
    <3>1. m \in 0..(n - 1)
      BY <1>4, <2>2
    <3>2. f[m] = IF m = 0 THEN L ELSE GroupsOver(f[m - 1], K) \cup f[m - 1]
      BY <1>5, <3>1, Zenon DEF Grows
    <3>3. g[m] = f[m] /\ (m # 0 => g[m - 1] = f[m - 1])
      BY <1>4, <2>2
    <3> QED BY <3>2, <3>3
  <2> QED BY <1>4, <2>1, <2>2
<1>7. g = [m \in 0..n |-> IF m = 0 THEN L ELSE GroupsOver(g[m - 1], K) \cup g[m - 1]]
  <2> HIDE DEF g
  <2>1. g = [m \in 0..n |-> g[m]]
    BY DEF g
  <2> QED BY <1>6, <2>1
<1> HIDE DEF g
<1>8. Grows(g, L, K, n)
  BY <1>7 DEF Grows
<1> QED BY <1>8

LEMMA GrowsOnce ==
    ASSUME NEW L, NEW K, NEW f, NEW g, NEW a \in Nat, NEW b \in Nat, a =< b,
           Grows(f, L, K, a), Grows(g, L, K, b)
    PROVE  \A m \in 0..a : f[m] = g[m]
<1> DEFINE T == {m \in 0..a : f[m] # g[m]}
<1>1. SUFFICES ASSUME T # {} PROVE FALSE
  OBVIOUS
<1>2. T \in SUBSET Nat
  OBVIOUS
<1>3. PICK m \in T : \A j \in T : m =< j
  BY <1>1, <1>2, Least
<1>4. m \in 0..a /\ m \in 0..b /\ f[m] # g[m] /\ m - 1 \notin T
  BY <1>3
<1>5. f[m] = IF m = 0 THEN L ELSE GroupsOver(f[m - 1], K) \cup f[m - 1]
  BY <1>4, Zenon DEF Grows
<1>6. g[m] = IF m = 0 THEN L ELSE GroupsOver(g[m - 1], K) \cup g[m - 1]
  BY <1>4, Zenon DEF Grows
<1>7. m # 0 => f[m - 1] = g[m - 1]
  BY <1>4
<1> QED BY <1>4, <1>5, <1>6, <1>7

LEMMA TreesOfIs ==
    ASSUME NEW L, NEW K, NEW n \in Nat
    PROVE  TreesOf(L, K, n)
             = IF n = 0 THEN L ELSE GroupsOver(TreesOf(L, K, n - 1), K) \cup TreesOf(L, K, n - 1)
<1> DEFINE Chosen(k) == CHOOSE f : Grows(f, L, K, k)
           F == [k \in Nat |-> Chosen(k)[k]]
           T == CHOOSE f : f = [k \in Nat |-> IF k = 0 THEN L
                                  ELSE [k : K, nodes : Seq(f[k - 1]) \ {<<>>}] \cup f[k - 1]]
<1>1. \A k \in Nat : Grows(Chosen(k), L, K, k)
  BY GrowsExists
<1> HIDE DEF Chosen
<1>2. ASSUME NEW k \in Nat
      PROVE  F[k] = IF k = 0 THEN L ELSE GroupsOver(F[k - 1], K) \cup F[k - 1]
  <2>1. Grows(Chosen(k), L, K, k) /\ k \in 0..k
    BY <1>1
  <2>2. Chosen(k)[k] = IF k = 0 THEN L
                       ELSE GroupsOver(Chosen(k)[k - 1], K) \cup Chosen(k)[k - 1]
    BY <2>1, Zenon DEF Grows
  <2>3. CASE k = 0
    BY <2>2, <2>3
  <2>4. CASE k # 0
    <3>1. k - 1 \in Nat /\ k - 1 =< k /\ k - 1 \in 0..(k - 1)
      BY <2>4
    <3>2. PICK p \in Nat : p = k - 1
      BY <3>1
    <3>3. Grows(Chosen(p), L, K, p) /\ p =< k /\ p \in 0..p
      BY <1>1, <3>1, <3>2
    <3>4. Chosen(p)[p] = Chosen(k)[p]
      BY <2>1, <3>3, GrowsOnce
    <3> QED BY <2>2, <2>4, <3>2, <3>4
  <2> QED BY <2>3, <2>4
<1>3. F = [k \in Nat |-> IF k = 0 THEN L ELSE GroupsOver(F[k - 1], K) \cup F[k - 1]]
  <2> HIDE DEF F
  <2>1. F = [k \in Nat |-> F[k]]
    BY DEF F
  <2> QED BY <1>2, <2>1
<1> HIDE DEF F
<1>4. T = [k \in Nat |-> IF k = 0 THEN L ELSE GroupsOver(T[k - 1], K) \cup T[k - 1]]
  <2>1. \E f : f = [k \in Nat |-> IF k = 0 THEN L ELSE GroupsOver(f[k - 1], K) \cup f[k - 1]]
    BY <1>3
  <2>2. T = CHOOSE f : f = [k \in Nat |-> IF k = 0 THEN L
                              ELSE GroupsOver(f[k - 1], K) \cup f[k - 1]]
    BY Zenon DEF GroupsOver
  <2> HIDE DEF T
  <2> QED BY <2>1, <2>2, Zenon
<1>5. \A m : TreesOf(L, K, m) = T[m]
  BY Zenon DEF TreesOf
<1> HIDE DEF T
<1>6. T[n] = IF n = 0 THEN L ELSE GroupsOver(T[n - 1], K) \cup T[n - 1]
  BY <1>4, Zenon
<1> QED BY <1>5, <1>6, Zenon

LEMMA TreesOfNext ==
    ASSUME NEW L, NEW K
    PROVE  /\ TreesOf(L, K, 0) = L
           /\ \A n \in Nat :
                 TreesOf(L, K, n + 1) = GroupsOver(TreesOf(L, K, n), K) \cup TreesOf(L, K, n)
<1>1. TreesOf(L, K, 0) = L
  BY TreesOfIs
<1>2. ASSUME NEW n \in Nat
      PROVE  TreesOf(L, K, n + 1) = GroupsOver(TreesOf(L, K, n), K) \cup TreesOf(L, K, n)
  <2>1. n + 1 \in Nat /\ n + 1 # 0 /\ (n + 1) - 1 = n
    OBVIOUS
  <2>2. PICK m \in Nat : m = n + 1 /\ m # 0 /\ m - 1 = n
    BY <2>1
  <2>3. TreesOf(L, K, m) = GroupsOver(TreesOf(L, K, m - 1), K) \cup TreesOf(L, K, m - 1)
    BY <2>2, TreesOfIs
  <2> QED BY <2>2, <2>3
<1> QED BY <1>1, <1>2

LEMMA TreesOfGrow ==
    ASSUME NEW L, NEW K, NEW m \in Nat, NEW n \in Nat, m =< n
    PROVE  TreesOf(L, K, m) \subseteq TreesOf(L, K, n)
<1> DEFINE T == {k \in Nat : m =< k /\ ~(TreesOf(L, K, m) \subseteq TreesOf(L, K, k))}
<1>1. SUFFICES ASSUME T # {} PROVE FALSE
  OBVIOUS
<1>2. PICK k \in T : \A j \in T : k =< j
  BY <1>1, Least
<1>3. k # m
  BY <1>2
<1>4. PICK j \in Nat : k = j + 1 /\ m =< j /\ j \notin T
  <2>1. k - 1 \in Nat /\ k = (k - 1) + 1 /\ m =< k - 1 /\ k - 1 \notin T
    BY <1>2, <1>3
  <2> QED BY <2>1
<1>5. TreesOf(L, K, k) = GroupsOver(TreesOf(L, K, j), K) \cup TreesOf(L, K, j)
  BY <1>4, TreesOfNext
<1> QED BY <1>2, <1>4, <1>5

LEMMA GroupsOverIs ==
    ASSUME NEW T, NEW K
    PROVE  \A c : c \in GroupsOver(T, K) <=>
                    \E k \in K, nodes \in Seq(T) : c = Group(k, nodes) /\ nodes # <<>>
<1>1. ASSUME NEW c \in GroupsOver(T, K)
      PROVE  \E k \in K, nodes \in Seq(T) : c = Group(k, nodes) /\ nodes # <<>>
  <2>1. /\ c = [k |-> c.k, nodes |-> c.nodes] /\ c.k \in K
        /\ c.nodes \in Seq(T) /\ c.nodes # <<>>
    BY Zenon DEF GroupsOver
  <2>2. c = Group(c.k, c.nodes)
    BY <2>1, Zenon DEF Group
  <2> QED BY <2>1, <2>2, Zenon
<1>2. ASSUME NEW k \in K, NEW nodes \in Seq(T), nodes # <<>>
      PROVE  Group(k, nodes) \in GroupsOver(T, K)
  BY <1>2 DEF GroupsOver, Group
<1> QED BY <1>1, <1>2

\* c is a group of trees with a level less than n.
IsAbove(c, L, K, n) ==
    \E m \in Nat, k \in K : \E nodes \in Seq(TreesOf(L, K, m)) :
       m + 1 = n /\ c = Group(k, nodes) /\ nodes # <<>>

LEMMA TreeOfIs ==
    ASSUME NEW L, NEW K, NEW n \in Nat, NEW c \in TreesOf(L, K, n)
    PROVE  c \in L \/ IsAbove(c, L, K, n)
<1> DEFINE T == {m \in Nat : m =< n /\ c \in TreesOf(L, K, m)}
<1>1. PICK m \in T : \A j \in T : m =< j
  <2>1. n \in T
    OBVIOUS
  <2> QED BY <2>1, Least
<1>2. m \in Nat /\ m =< n /\ c \in TreesOf(L, K, m)
  BY <1>1
<1>3. CASE m = 0
  BY <1>2, <1>3, TreesOfNext
<1>4. CASE m # 0
  <2>1. PICK j \in Nat : m = j + 1 /\ j \notin T
    <3>1. m - 1 \in Nat /\ m = (m - 1) + 1 /\ m - 1 \notin T
      BY <1>1, <1>2, <1>4
    <3> QED BY <3>1
  <2>2. PICK i \in Nat : i + 1 = n /\ j =< i
    <3>1. n - 1 \in Nat /\ (n - 1) + 1 = n /\ j =< n - 1
      BY <1>2, <2>1
    <3> QED BY <3>1
  <2>3. c \in GroupsOver(TreesOf(L, K, j), K)
    <3>1. c \notin TreesOf(L, K, j)
      BY <1>2, <2>1
    <3>2. TreesOf(L, K, m) = GroupsOver(TreesOf(L, K, j), K) \cup TreesOf(L, K, j)
      BY <2>1, TreesOfNext
    <3> QED BY <1>2, <3>1, <3>2
  <2>4. PICK k \in K, nodes \in Seq(TreesOf(L, K, j)) : c = Group(k, nodes) /\ nodes # <<>>
    BY <2>3, GroupsOverIs
  <2>5. nodes \in Seq(TreesOf(L, K, i))
    BY <2>2, TreesOfGrow, SeqMonotonic
  <2> QED BY <2>2, <2>4, <2>5 DEF IsAbove
<1> QED BY <1>3, <1>4

LEMMA LeafIsIn ==
    ASSUME NEW L, NEW K, NEW n \in Nat, NEW c \in L
    PROVE  c \in TreesOf(L, K, n)
<1>1. c \in TreesOf(L, K, 0)
  BY TreesOfNext
<1>2. TreesOf(L, K, 0) \subseteq TreesOf(L, K, n)
  BY TreesOfGrow
<1> QED BY <1>1, <1>2

LEMMA GroupIsIn ==
    ASSUME NEW L, NEW K, NEW n \in Nat, NEW k \in K, NEW nodes \in Seq(TreesOf(L, K, n)),
           nodes # <<>>
    PROVE  Group(k, nodes) \in TreesOf(L, K, n + 1)
<1>1. Group(k, nodes) \in GroupsOver(TreesOf(L, K, n), K)
  BY GroupsOverIs
<1>2. TreesOf(L, K, n + 1) = GroupsOver(TreesOf(L, K, n), K) \cup TreesOf(L, K, n)
  <2>1. \A m \in Nat : TreesOf(L, K, m + 1) = GroupsOver(TreesOf(L, K, m), K) \cup TreesOf(L, K, m)
    BY TreesOfNext
  <2> QED BY <2>1
<1> QED BY <1>1, <1>2

\* What holds of the leaves, and of a group when of its operands, holds of all
\* trees.
Upwards(S, L, K, n) ==
    /\ L \subseteq S
    /\ \A m \in Nat, k \in K : \A nodes \in Seq(TreesOf(L, K, m)) :
          (m < n /\ nodes # <<>> /\ \A i \in DOMAIN nodes : nodes[i] \in S)
             => Group(k, nodes) \in S

LEMMA TreesInduction ==
    ASSUME NEW S, NEW L, NEW K, NEW n \in Nat, Upwards(S, L, K, n)
    PROVE  TreesOf(L, K, n) \subseteq S
<1> DEFINE Short(m) == m =< n /\ ~(TreesOf(L, K, m) \subseteq S)
           T == {m \in Nat : Short(m)}
<1>0. T \in SUBSET Nat /\ \A m \in Nat : m \in T <=> Short(m)
  OBVIOUS
<1> HIDE DEF T
<1>1. SUFFICES ASSUME T # {} PROVE FALSE
  <2>1. n =< n
    OBVIOUS
  <2> QED BY <1>0, <1>1, <2>1
<1>2. PICK m \in T : \A j \in T : m =< j
  BY <1>0, <1>1, Least
<1>3. m \in Nat /\ m =< n
  BY <1>0, <1>2
<1>4. PICK c \in TreesOf(L, K, m) : c \notin S
  BY <1>0, <1>2
<1>5. CASE c \in L
  BY <1>4, <1>5 DEF Upwards
<1>6. CASE IsAbove(c, L, K, m)
  <2>1. PICK l \in Nat, k \in K : \E nodes \in Seq(TreesOf(L, K, l)) :
           l + 1 = m /\ c = Group(k, nodes) /\ nodes # <<>>
    BY ONLY <1>6, Zenon DEF IsAbove
  <2>2. PICK nodes \in Seq(TreesOf(L, K, l)) : l + 1 = m /\ c = Group(k, nodes) /\ nodes # <<>>
    BY ONLY <2>1, Zenon
  <2>3. l < n /\ l =< n /\ ~(m =< l)
    BY <1>3, <2>2
  <2>4. TreesOf(L, K, l) \subseteq S
    BY <1>0, <1>2, <2>3
  <2>5. \A i \in DOMAIN nodes : nodes[i] \in S
    BY <2>4
  <2>6. Group(k, nodes) \in S
    BY <2>2, <2>3, <2>5, Zenon DEF Upwards
  <2> QED BY <1>4, <2>2, <2>6
<1>7. c \in L \/ IsAbove(c, L, K, m)
  BY ONLY <1>3, c \in TreesOf(L, K, m), TreeOfIs
<1> QED BY <1>5, <1>6, <1>7, Zenon

\* The kinds of groups, in filters and in MongoDB's documents.
Kinds == Separators \cup {"$and", "$or"}

NoGroups(L) == \A c \in L : c.k \notin Kinds

LEMMA OperandsSmaller ==
    ASSUME NEW L, NEW K, NoGroups(L), NEW n \in Nat, NEW c \in TreesOf(L, K, n), c.k \in Kinds
    PROVE  \E m \in Nat : /\ m + 1 = n /\ c.nodes \in Seq(TreesOf(L, K, m)) /\ c.nodes # <<>>
                          /\ c.k \in K /\ c = Group(c.k, c.nodes)
<1>1. c \notin L
  BY DEF NoGroups
<1>2. PICK m \in Nat, k \in K : \E nodes \in Seq(TreesOf(L, K, m)) :
         m + 1 = n /\ c = Group(k, nodes) /\ nodes # <<>>
  <2>1. IsAbove(c, L, K, n)
    BY <1>1, TreeOfIs
  <2> QED BY <2>1, Zenon DEF IsAbove
<1>3. PICK nodes \in Seq(TreesOf(L, K, m)) : m + 1 = n /\ c = Group(k, nodes) /\ nodes # <<>>
  BY <1>2, Zenon
<1>4. c.k = k /\ c.nodes = nodes
  BY <1>3 DEF Group
<1> QED BY <1>3, <1>4, Zenon

-----------------------------------------------------------------------------
(* The recursive operators. *)

\* What each gives for c, f being what it gives for the operands of c.
RewriteStep(c, f, fn) ==
    IF IsGroup(c) THEN Apply(fn, Combine([i \in DOMAIN c.nodes |-> f[c.nodes[i]]], c.k))
    ELSE Apply(fn, c)

ReplacedStep(c, f, fn) ==
    IF IsGroup(c) THEN Mixed(c.k, {f[c.nodes[i]] : i \in DOMAIN c.nodes})
    ELSE IF fn[c.sel] = "drop" THEN NoFilter ELSE Meets(fn[c.sel])

GroupsStep(c, f) ==
    IF IsGroup(c) THEN {c} \cup UNION {f[c.nodes[i]] : i \in DOMAIN c.nodes} ELSE {}

WalkStep(c, f, lim) ==
    [d \in Nat |->
       IF lim.depth > 0 /\ d > lim.depth THEN Refused
       ELSE IF ~IsGroup(c) THEN BindComparison(c)
       ELSE LET ns == [i \in DOMAIN c.nodes |-> f[c.nodes[i]][d + 1]]
            IN  IF Refused \in ToSet(ns) THEN Refused ELSE Group(c.k, ns)]

ToFilterStep(c, f) ==
    IF IsGroup(c)
    THEN Group(IF c.k = ";" THEN "$and" ELSE "$or", [i \in DOMAIN c.nodes |-> f[c.nodes[i]]])
    ELSE [k |-> MongoOperators[c.op], column |-> Schema[c.sel].column,
          values |-> IF c.op \in Memberships THEN ToSet(c.args) ELSE {c.args[1]}]

Satisfied(x, c) ==
    \E v \in c.values :
       CASE c.k \in {"$eq", "$ne", "$in", "$nin"} -> x = v
         [] c.k = "$gt"  -> Rank[x] > Rank[v]
         [] c.k = "$gte" -> Rank[x] >= Rank[v]
         [] c.k = "$lt"  -> Rank[x] < Rank[v]
         [] c.k = "$lte" -> Rank[x] <= Rank[v]

Found(c) ==
    {d \in Records : (\E x \in d[c.column] : Satisfied(x, c)) <=> c.k \notin {"$ne", "$nin"}}

FindsStep(c, f) ==
    IF c.k \in {"$and", "$or"}
    THEN Combined(IF c.k = "$and" THEN ";" ELSE ",", {f[c.nodes[i]] : i \in DOMAIN c.nodes})
    ELSE Found(c)

SoughtStep(c, f) ==
    IF IsGroup(c) THEN Combined(c.k, {f[c.nodes[i]] : i \in DOMAIN c.nodes}) ELSE Asks(c)

Step(op, c, f, fn) ==
    IF op = "Rewrite" THEN RewriteStep(c, f, fn)
    ELSE IF op = "Replaced" THEN ReplacedStep(c, f, fn)
    ELSE IF op = "Groups" THEN GroupsStep(c, f)
    ELSE IF op = "Walk" THEN WalkStep(c, f, fn)
    ELSE IF op = "ToFilter" THEN ToFilterStep(c, f)
    ELSE IF op = "Finds" THEN FindsStep(c, f)
    ELSE SoughtStep(c, f)

Computes(f, op, T, fn) == f = [c \in T |-> Step(op, c, f, fn)]

LEMMA StepLocal ==
    ASSUME NEW op, NEW c, NEW fn, NEW f, NEW g,
           c.k \in Kinds => \A i \in DOMAIN c.nodes : f[c.nodes[i]] = g[c.nodes[i]]
    PROVE  Step(op, c, f, fn) = Step(op, c, g, fn)
<1>1. CASE c.k \in Kinds
  <2>1. [i \in DOMAIN c.nodes |-> f[c.nodes[i]]] = [i \in DOMAIN c.nodes |-> g[c.nodes[i]]]
    BY <1>1
  <2>2. {f[c.nodes[i]] : i \in DOMAIN c.nodes} = {g[c.nodes[i]] : i \in DOMAIN c.nodes}
    BY <1>1
  <2>3. \A d : [i \in DOMAIN c.nodes |-> f[c.nodes[i]][d]] = [i \in DOMAIN c.nodes |-> g[c.nodes[i]][d]]
    BY <1>1
  <2>4. RewriteStep(c, f, fn) = RewriteStep(c, g, fn)
    BY <2>1, Zenon DEF RewriteStep
  <2>5. ReplacedStep(c, f, fn) = ReplacedStep(c, g, fn) /\ GroupsStep(c, f) = GroupsStep(c, g)
    BY <2>2, Zenon DEF ReplacedStep, GroupsStep
  <2>6. WalkStep(c, f, fn) = WalkStep(c, g, fn)
    BY <2>3, Zenon DEF WalkStep
  <2>7. ToFilterStep(c, f) = ToFilterStep(c, g)
    BY <2>1, Zenon DEF ToFilterStep
  <2>8. FindsStep(c, f) = FindsStep(c, g) /\ SoughtStep(c, f) = SoughtStep(c, g)
    BY <2>2, Zenon DEF FindsStep, SoughtStep
  <2> QED BY <2>4, <2>5, <2>6, <2>7, <2>8, Zenon DEF Step
<1>2. CASE c.k \notin Kinds
  <2>1. ~IsGroup(c) /\ c.k \notin {"$and", "$or"}
    BY <1>2 DEF Kinds, IsGroup
  <2>2. RewriteStep(c, f, fn) = RewriteStep(c, g, fn)
    BY <2>1, Zenon DEF RewriteStep
  <2>3. ReplacedStep(c, f, fn) = ReplacedStep(c, g, fn) /\ GroupsStep(c, f) = GroupsStep(c, g)
    BY <2>1, Zenon DEF ReplacedStep, GroupsStep
  <2>4. WalkStep(c, f, fn) = WalkStep(c, g, fn)
    BY <2>1, Zenon DEF WalkStep
  <2>5. ToFilterStep(c, f) = ToFilterStep(c, g)
    BY <2>1, Zenon DEF ToFilterStep
  <2>6. FindsStep(c, f) = FindsStep(c, g) /\ SoughtStep(c, f) = SoughtStep(c, g)
    BY <2>1, Zenon DEF FindsStep, SoughtStep
  <2> QED BY <2>2, <2>3, <2>4, <2>5, <2>6, Zenon DEF Step
<1> QED BY <1>1, <1>2

LEMMA ComputesExists ==
    ASSUME NEW op, NEW fn, NEW L, NEW K, NoGroups(L), NEW k \in Nat
    PROVE  \E f : Computes(f, op, TreesOf(L, K, k), fn)
<1> DEFINE Of(n) == TreesOf(L, K, n)
           T == {n \in Nat : ~\E f : Computes(f, op, Of(n), fn)}
<1>1. SUFFICES ASSUME T # {} PROVE FALSE
  OBVIOUS
<1>2. PICK n \in T : \A m \in T : n =< m
  BY <1>1, Least
<1>3. \E g : \A c \in Of(n) :
         c.k \in Kinds => \A i \in DOMAIN c.nodes :
                            /\ g[c.nodes[i]] = Step(op, c.nodes[i], g, fn)
                            /\ c.nodes[i] \in Of(n)
  <2>1. CASE n = 0
    <3>1. \A c \in Of(n) : c.k \notin Kinds
      BY <2>1, OperandsSmaller
    <3> QED BY <3>1
  <2>2. CASE n # 0
    <3>1. PICK j \in Nat : j + 1 = n /\ j \notin T
      <4>1. n - 1 \in Nat /\ (n - 1) + 1 = n /\ n - 1 \notin T
        BY <1>2, <2>2
      <4> QED BY <4>1
    <3>2. PICK g : Computes(g, op, Of(j), fn)
      BY <3>1
    <3>3. ASSUME NEW c \in Of(n), c.k \in Kinds, NEW i \in DOMAIN c.nodes
          PROVE  /\ g[c.nodes[i]] = Step(op, c.nodes[i], g, fn)
                 /\ c.nodes[i] \in Of(n)
      <4>1. PICK m \in Nat : m + 1 = n /\ c.nodes \in Seq(TreesOf(L, K, m))
        BY <1>2, <3>3, OperandsSmaller
      <4>2. m = j
        BY <3>1, <4>1
      <4>3. c.nodes[i] \in Of(j)
        BY <4>1, <4>2
      <4>4. Of(j) \subseteq Of(n)
        BY <1>2, <3>1, TreesOfGrow
      <4>5. g[c.nodes[i]] = Step(op, c.nodes[i], g, fn)
        BY <3>2, <4>3, Zenon DEF Computes
      <4> QED BY <4>3, <4>4, <4>5
    <3> QED BY <3>3
  <2> QED BY <2>1, <2>2
<1>4. PICK g : \A c \in Of(n) :
         c.k \in Kinds => \A i \in DOMAIN c.nodes :
                            /\ g[c.nodes[i]] = Step(op, c.nodes[i], g, fn)
                            /\ c.nodes[i] \in Of(n)
  BY <1>3
<1> DEFINE h == [c \in Of(n) |-> Step(op, c, g, fn)]
<1>5. ASSUME NEW c \in Of(n) PROVE Step(op, c, g, fn) = Step(op, c, h, fn)
  <2>1. c.k \in Kinds => \A i \in DOMAIN c.nodes : g[c.nodes[i]] = h[c.nodes[i]]
    BY <1>4, Zenon
  <2> HIDE DEF h
  <2> QED BY <2>1, StepLocal
<1>6. h = [c \in Of(n) |-> Step(op, c, h, fn)]
  <2>1. \A c \in Of(n) : h[c] = Step(op, c, h, fn)
    BY <1>5, Zenon
  <2>2. h = [c \in Of(n) |-> h[c]]
    BY Zenon
  <2> HIDE DEF h
  <2> QED BY <2>1, <2>2
<1> HIDE DEF h
<1>7. Computes(h, op, Of(n), fn)
  BY <1>6 DEF Computes
<1> QED BY <1>2, <1>7

-----------------------------------------------------------------------------
(* The trees All, Any and Rewrite work on. *)

Singles == [k : {"cmp"}, sel : Names]

LEMMA TreesToIs == \A n : TreesTo(n) = TreesOf(Singles, Separators, n)
BY Zenon DEF TreesTo, Singles

LEMMA SingleIs == \A c : c \in Singles <=> \E x \in Names : c = Leaf(x)
<1>1. ASSUME NEW c \in Singles PROVE \E x \in Names : c = Leaf(x)
  <2>1. c = [k |-> "cmp", sel |-> c.sel] /\ c.sel \in Names
    BY DEF Singles
  <2> QED BY <2>1 DEF Leaf
<1>2. ASSUME NEW x \in Names PROVE Leaf(x) \in Singles
  BY DEF Singles, Leaf
<1> QED BY <1>1, <1>2

\* Which of the three a node is.
LEMMA KindIs ==
    /\ \A x : Leaf(x) # Nil /\ ~IsGroup(Leaf(x)) /\ Leaf(x).k = "cmp" /\ Leaf(x).sel = x
    /\ \A nodes : \A k \in Separators :
          /\ Group(k, nodes) # Nil /\ IsGroup(Group(k, nodes))
          /\ Group(k, nodes).k = k /\ Group(k, nodes).nodes = nodes
    /\ ~IsGroup(Nil) /\ Nil.k = "nil"
BY DEF Leaf, Group, Nil, IsGroup, Separators

LEMMA AboveIsGroup ==
    ASSUME NEW c, NEW L, NEW n, IsAbove(c, L, Separators, n)
    PROVE  IsGroup(c)
<1>1. PICK k \in Separators : \E nodes : c = Group(k, nodes)
  BY Zenon DEF IsAbove
<1> QED BY <1>1, KindIs, Zenon

LEMMA SinglesPlain == NoGroups(Singles)
BY DEF NoGroups, Singles, Kinds, Separators

LEMMA TreesToGrow ==
    ASSUME NEW m \in Nat, NEW n \in Nat, m =< n
    PROVE  TreesTo(m) \subseteq TreesTo(n)
<1>1. TreesOf(Singles, Separators, m) \subseteq TreesOf(Singles, Separators, n)
  BY TreesOfGrow
<1> QED BY <1>1, TreesToIs

\* A tree is a comparison or a group of trees with a level less.
LEMMA TreeIs ==
    ASSUME NEW n \in Nat, NEW c \in TreesTo(n)
    PROVE  \/ \E x \in Names : c = Leaf(x)
           \/ \E m \in Nat, k \in Separators : \E nodes \in Seq(TreesTo(m)) :
                 m + 1 = n /\ c = Group(k, nodes) /\ nodes # <<>>
<1>1. c \in TreesOf(Singles, Separators, n)
  BY TreesToIs
<1>2. c \in Singles \/ IsAbove(c, Singles, Separators, n)
  BY <1>1, TreeOfIs
<1> QED BY <1>2, TreesToIs, SingleIs, Zenon DEF IsAbove

LEMMA LeafIsTree ==
    ASSUME NEW n \in Nat, NEW x \in Names
    PROVE  Leaf(x) \in TreesTo(n)
<1>1. Leaf(x) \in Singles
  BY SingleIs
<1> QED BY <1>1, LeafIsIn, TreesToIs

LEMMA GroupIsTree ==
    ASSUME NEW n \in Nat, NEW k \in Separators, NEW nodes \in Seq(TreesTo(n)), nodes # <<>>
    PROVE  Group(k, nodes) \in TreesTo(n + 1)
<1>1. nodes \in Seq(TreesOf(Singles, Separators, n))
  BY TreesToIs
<1>2. Group(k, nodes) \in TreesOf(Singles, Separators, n + 1)
  BY <1>1, GroupIsIn
<1> QED BY <1>2, TreesToIs

LEMMA NilNoTree == \A n \in Nat : Nil \notin TreesTo(n)
<1>1. SUFFICES ASSUME NEW n \in Nat, Nil \in TreesTo(n) PROVE FALSE
  OBVIOUS
<1>2. CASE \E x \in Names : Nil = Leaf(x)
  BY <1>2, KindIs, Zenon
<1>3. CASE \E m \in Nat, k \in Separators : \E nodes \in Seq(TreesTo(m)) :
              m + 1 = n /\ Nil = Group(k, nodes) /\ nodes # <<>>
  BY <1>3, KindIs, Zenon
<1> QED BY <1>1, <1>2, <1>3, TreeIs, Zenon

Inductive(S, n) ==
    /\ \A x \in Names : Leaf(x) \in S
    /\ \A m \in Nat, k \in Separators : \A nodes \in Seq(TreesTo(m)) :
          (m < n /\ nodes # <<>> /\ \A i \in DOMAIN nodes : nodes[i] \in S)
             => Group(k, nodes) \in S

LEMMA TreeInduction ==
    ASSUME NEW S, NEW n \in Nat, Inductive(S, n)
    PROVE  TreesTo(n) \subseteq S
<1>1. Singles \subseteq S
  BY SingleIs, Zenon DEF Inductive
<1>2. Upwards(S, Singles, Separators, n)
  BY <1>1, TreesToIs, Zenon DEF Upwards, Inductive
<1> QED BY <1>2, TreesInduction, TreesToIs

LEMMA TreeOperands ==
    ASSUME NEW n \in Nat, NEW c \in TreesTo(n), IsGroup(c)
    PROVE  \E m \in Nat : /\ m + 1 = n /\ c.nodes \in Seq(TreesTo(m)) /\ c.nodes # <<>>
                          /\ c.k \in Separators /\ c = Group(c.k, c.nodes)
<1>1. c \in TreesOf(Singles, Separators, n) /\ c.k \in Kinds
  BY TreesToIs DEF IsGroup, Kinds
<1>2. \E m \in Nat : /\ m + 1 = n /\ c.nodes \in Seq(TreesOf(Singles, Separators, m))
                     /\ c.nodes # <<>> /\ c.k \in Separators /\ c = Group(c.k, c.nodes)
  BY <1>1, SinglesPlain, OperandsSmaller
<1> QED BY <1>2, TreesToIs, Zenon

Deepest == Levels + MaxCalls

LEMMA DeepestIs == Deepest \in Nat /\ Trees = TreesTo(Deepest)
BY TreesAssumption DEF Deepest, Trees

LEMMA TreesCompute ==
    ASSUME NEW op, NEW fn
    PROVE  \E f : Computes(f, op, Trees, fn)
<1>1. \E f : Computes(f, op, TreesOf(Singles, Separators, Deepest), fn)
  BY DeepestIs, SinglesPlain, ComputesExists
<1> QED BY <1>1, DeepestIs, TreesToIs

LEMMA RewriteComputes ==
    ASSUME NEW fn
    PROVE  \E f : Computes(f, "Rewrite", Trees, fn) /\ \A b \in Trees : Rewrite(b, fn) = f[b]
<1> DEFINE f == CHOOSE f : f = [c \in Trees |->
                  IF IsGroup(c)
                  THEN Apply(fn, Combine([i \in DOMAIN c.nodes |-> f[c.nodes[i]]], c.k))
                  ELSE Apply(fn, c)]
<1>1. \E g : g = [c \in Trees |-> RewriteStep(c, g, fn)]
  <2>1. \E g : Computes(g, "Rewrite", Trees, fn)
    BY TreesCompute
  <2> QED BY <2>1 DEF Computes, Step
<1>2. f = [c \in Trees |-> RewriteStep(c, f, fn)]
  BY <1>1, Zenon DEF RewriteStep
<1>3. \A b \in Trees : Rewrite(b, fn) = f[b]
  BY NilNoTree, DeepestIs, Zenon DEF Rewrite
<1> HIDE DEF f
<1>4. Computes(f, "Rewrite", Trees, fn)
  BY <1>2, Zenon DEF Computes, Step
<1> QED BY <1>3, <1>4

LEMMA ReplacedComputes ==
    ASSUME NEW fn
    PROVE  \E f : Computes(f, "Replaced", Trees, fn) /\ \A b \in Trees : Replaced(b, fn) = f[b]
<1> DEFINE f == CHOOSE f : f = [c \in Trees |->
                  IF IsGroup(c) THEN Mixed(c.k, {f[c.nodes[i]] : i \in DOMAIN c.nodes})
                  ELSE IF fn[c.sel] = "drop" THEN NoFilter ELSE Meets(fn[c.sel])]
<1>1. \E g : g = [c \in Trees |-> ReplacedStep(c, g, fn)]
  <2>1. \E g : Computes(g, "Replaced", Trees, fn)
    BY TreesCompute
  <2> QED BY <2>1 DEF Computes, Step
<1>2. f = [c \in Trees |-> ReplacedStep(c, f, fn)]
  BY <1>1, Zenon DEF ReplacedStep
<1>3. \A b \in Trees : Replaced(b, fn) = f[b]
  BY NilNoTree, DeepestIs, Zenon DEF Replaced
<1> HIDE DEF f
<1>4. Computes(f, "Replaced", Trees, fn)
  BY <1>2 DEF Computes, Step
<1> QED BY <1>3, <1>4

LEMMA GroupsComputes ==
    \E f : Computes(f, "Groups", Trees, <<>>) /\ \A b \in Trees : Groups(b) = f[b]
<1> DEFINE f == CHOOSE f : f = [c \in Trees |->
                  IF IsGroup(c) THEN {c} \cup UNION {f[c.nodes[i]] : i \in DOMAIN c.nodes}
                  ELSE {}]
<1>1. \E g : g = [c \in Trees |-> GroupsStep(c, g)]
  <2>1. \E g : Computes(g, "Groups", Trees, <<>>)
    BY TreesCompute
  <2> QED BY <2>1 DEF Computes, Step
<1>2. f = [c \in Trees |-> GroupsStep(c, f)]
  BY <1>1, Zenon DEF GroupsStep
<1>3. \A b \in Trees : Groups(b) = f[b]
  BY NilNoTree, DeepestIs, Zenon DEF Groups
<1> HIDE DEF f
<1>4. Computes(f, "Groups", Trees, <<>>)
  BY <1>2 DEF Computes, Step
<1> QED BY <1>3, <1>4

\* A tree is a comparison or a group of smaller trees.
LEMMA TopIs ==
    ASSUME NEW c \in Trees
    PROVE  /\ c # Nil
           /\ IsGroup(c) => /\ c.nodes \in Seq(Trees) /\ c.nodes # <<>> /\ c.k \in Separators
                            /\ \A i \in DOMAIN c.nodes : c.nodes[i] \in Trees /\ c.nodes[i] # Nil
           /\ ~IsGroup(c) => \E x \in Names : c = Leaf(x)
<1>1. c \in TreesTo(Deepest) /\ Deepest \in Nat
  BY DeepestIs
<1>2. ASSUME IsGroup(c)
      PROVE  /\ c.nodes \in Seq(Trees) /\ c.nodes # <<>> /\ c.k \in Separators
             /\ \A i \in DOMAIN c.nodes : c.nodes[i] \in Trees /\ c.nodes[i] # Nil
  <2>1. PICK m \in Nat : m + 1 = Deepest /\ c.nodes \in Seq(TreesTo(m)) /\ c.nodes # <<>>
                         /\ c.k \in Separators
    BY <1>1, <1>2, TreeOperands
  <2>2. TreesTo(m) \subseteq Trees
    BY <1>1, <2>1, DeepestIs, TreesToGrow
  <2>3. c.nodes \in Seq(Trees)
    BY <2>1, <2>2, SeqMonotonic
  <2>4. \A i \in DOMAIN c.nodes : c.nodes[i] \in Trees
    BY <2>3
  <2>5. Nil \notin Trees
    BY NilNoTree, DeepestIs
  <2> QED BY <2>1, <2>3, <2>4, <2>5
<1>3. ASSUME ~IsGroup(c) PROVE \E x \in Names : c = Leaf(x)
  <2>1. ~\E m \in Nat, k \in Separators : \E nodes \in Seq(TreesTo(m)) :
            m + 1 = Deepest /\ c = Group(k, nodes) /\ nodes # <<>>
    <3>1. \A nodes : \A k \in Separators : c # Group(k, nodes)
      BY <1>3, KindIs
    <3> QED BY <3>1, Zenon
  <2> QED BY <1>1, <2>1, TreeIs
<1> QED BY <1>1, <1>2, <1>3, NilNoTree, DeepestIs, Zenon

LEMMA RewriteIs ==
    ASSUME NEW fn
    PROVE  /\ Rewrite(Nil, fn) = Nil
           /\ \A x \in Names : Rewrite(Leaf(x), fn) = Apply(fn, Leaf(x))
           /\ \A c \in Trees : IsGroup(c) =>
                 Rewrite(c, fn) =
                   Apply(fn, Combine([i \in DOMAIN c.nodes |-> Rewrite(c.nodes[i], fn)], c.k))
<1>1. PICK f : Computes(f, "Rewrite", Trees, fn) /\ \A b \in Trees : Rewrite(b, fn) = f[b]
  BY RewriteComputes
<1>2. \A c \in Trees : f[c] = Step("Rewrite", c, f, fn)
  BY <1>1, Zenon DEF Computes
<1>3. ASSUME NEW x \in Names PROVE Rewrite(Leaf(x), fn) = Apply(fn, Leaf(x))
  <2>1. Leaf(x) \in Trees
    BY LeafIsTree, DeepestIs
  <2> QED BY <1>1, <1>2, <2>1, KindIs, Zenon DEF Step, RewriteStep, ReplacedStep, GroupsStep
<1>4. ASSUME NEW c \in Trees, IsGroup(c)
      PROVE  Rewrite(c, fn) =
               Apply(fn, Combine([i \in DOMAIN c.nodes |-> Rewrite(c.nodes[i], fn)], c.k))
  <2>1. [i \in DOMAIN c.nodes |-> Rewrite(c.nodes[i], fn)] = [i \in DOMAIN c.nodes |-> f[c.nodes[i]]]
    BY <1>1, <1>4, TopIs
  <2> QED BY <1>1, <1>2, <1>4, <2>1, Zenon DEF Step, RewriteStep, ReplacedStep, GroupsStep
<1>5. Rewrite(Nil, fn) = Nil
  BY DEF Rewrite
<1> QED BY <1>3, <1>4, <1>5

LEMMA ReplacedIs ==
    ASSUME NEW fn
    PROVE  /\ Replaced(Nil, fn) = NoFilter
           /\ \A x \in Names :
                 Replaced(Leaf(x), fn) = IF fn[x] = "drop" THEN NoFilter ELSE Meets(fn[x])
           /\ \A c \in Trees : IsGroup(c) =>
                 Replaced(c, fn) = Mixed(c.k, {Replaced(c.nodes[i], fn) : i \in DOMAIN c.nodes})
<1>1. PICK f : Computes(f, "Replaced", Trees, fn) /\ \A b \in Trees : Replaced(b, fn) = f[b]
  BY ReplacedComputes
<1>2. \A c \in Trees : f[c] = Step("Replaced", c, f, fn)
  BY <1>1, Zenon DEF Computes
<1>3. ASSUME NEW x \in Names
      PROVE  Replaced(Leaf(x), fn) = IF fn[x] = "drop" THEN NoFilter ELSE Meets(fn[x])
  <2>1. Leaf(x) \in Trees
    BY LeafIsTree, DeepestIs
  <2>2. ~IsGroup(Leaf(x)) /\ Leaf(x).sel = x
    BY KindIs
  <2> QED BY <1>1, <1>2, <2>1, <2>2 DEF Step, RewriteStep, ReplacedStep, GroupsStep
<1>4. ASSUME NEW c \in Trees, IsGroup(c)
      PROVE  Replaced(c, fn) = Mixed(c.k, {Replaced(c.nodes[i], fn) : i \in DOMAIN c.nodes})
  <2>1. {Replaced(c.nodes[i], fn) : i \in DOMAIN c.nodes} = {f[c.nodes[i]] : i \in DOMAIN c.nodes}
    BY <1>1, <1>4, TopIs
  <2> QED BY <1>1, <1>2, <1>4, <2>1 DEF Step, RewriteStep, ReplacedStep, GroupsStep
<1>5. Replaced(Nil, fn) = NoFilter
  BY DEF Replaced
<1> QED BY <1>3, <1>4, <1>5

LEMMA GroupsIs ==
    /\ Groups(Nil) = {}
    /\ \A x \in Names : Groups(Leaf(x)) = {}
    /\ \A c \in Trees : IsGroup(c) =>
          Groups(c) = {c} \cup UNION {Groups(c.nodes[i]) : i \in DOMAIN c.nodes}
<1>1. PICK f : Computes(f, "Groups", Trees, <<>>) /\ \A b \in Trees : Groups(b) = f[b]
  BY GroupsComputes
<1>2. \A c \in Trees : f[c] = Step("Groups", c, f, <<>>)
  BY <1>1, Zenon DEF Computes
<1>3. ASSUME NEW x \in Names PROVE Groups(Leaf(x)) = {}
  <2>1. Leaf(x) \in Trees
    BY LeafIsTree, DeepestIs
  <2>2. ~IsGroup(Leaf(x))
    BY KindIs
  <2> QED BY <1>1, <1>2, <2>1, <2>2 DEF Step, RewriteStep, ReplacedStep, GroupsStep
<1>4. ASSUME NEW c \in Trees, IsGroup(c)
      PROVE  Groups(c) = {c} \cup UNION {Groups(c.nodes[i]) : i \in DOMAIN c.nodes}
  <2>1. {Groups(c.nodes[i]) : i \in DOMAIN c.nodes} = {f[c.nodes[i]] : i \in DOMAIN c.nodes}
    BY <1>1, <1>4, TopIs
  <2> QED BY <1>1, <1>2, <1>4, <2>1 DEF Step, RewriteStep, ReplacedStep, GroupsStep
<1>5. Groups(Nil) = {}
  BY DEF Groups
<1> QED BY <1>3, <1>4, <1>5

-----------------------------------------------------------------------------
(* Sets of documents. *)

Meanings == {NoFilter} \cup SUBSET Documents

LEMMA NoFilterApart == \A s \in SUBSET Documents : s # NoFilter
<1>1. {"no filter"} \notin Documents
  BY NamesAssumption DEF Documents
<1> QED BY <1>1 DEF NoFilter

\* Whether a k stands for a conjunction.
IsAnd(k) == k = ";"

\* M is what the sets of T are combined to, as the operands of a k are.
Mixes(M, k, T) ==
    \A d : d \in M <=> (\E s \in T : d \in s) /\ (IsAnd(k) => \A s \in T : d \in s)

LEMMA CombinedIs ==
    ASSUME NEW k, NEW S
    PROVE  Mixes(Combined(k, S), k, S)
BY Zenon DEF Combined, IsAnd, Mixes

LEMMA MixedIs ==
    ASSUME NEW k, NEW S \in SUBSET Meanings
    PROVE  /\ S \subseteq {NoFilter} => Mixed(k, S) = NoFilter
           /\ ~(S \subseteq {NoFilter}) =>
                 /\ Mixed(k, S) \in SUBSET Documents /\ Mixed(k, S) # NoFilter
                 /\ Mixes(Mixed(k, S), k, S \ {NoFilter})
<1>1. ASSUME ~(S \subseteq {NoFilter})
      PROVE  /\ Mixed(k, S) \in SUBSET Documents /\ Mixed(k, S) # NoFilter
             /\ Mixes(Mixed(k, S), k, S \ {NoFilter})
  <2>1. Mixed(k, S) = Combined(k, S \ {NoFilter})
    BY <1>1 DEF Mixed
  <2>2. Mixes(Mixed(k, S), k, S \ {NoFilter})
    BY <2>1, CombinedIs
  <2>3. S \ {NoFilter} \subseteq SUBSET Documents
    BY DEF Meanings
  <2>4. \A d \in Mixed(k, S) : \E s \in S \ {NoFilter} : d \in s
    BY <2>2 DEF Mixes
  <2>5. Mixed(k, S) \in SUBSET Documents
    BY <2>3, <2>4
  <2> QED BY <2>2, <2>5, NoFilterApart
<1>2. ASSUME S \subseteq {NoFilter} PROVE Mixed(k, S) = NoFilter
  BY <1>2 DEF Mixed
<1> QED BY <1>1, <1>2

LEMMA MixedSingle ==
    ASSUME NEW k, NEW m \in Meanings
    PROVE  Mixed(k, {m}) = m
<1>1. CASE m = NoFilter
  BY <1>1, MixedIs
<1>2. CASE m # NoFilter
  <2>1. PICK S : S = {m} /\ ~(S \subseteq {NoFilter}) /\ S \ {NoFilter} = S /\ S \in SUBSET Meanings
    BY <1>2
  <2>2. Mixes(Mixed(k, S), k, S) /\ Mixed(k, S) \in SUBSET Documents
    <3>1. Mixes(Mixed(k, S), k, S \ {NoFilter}) /\ Mixed(k, S) \in SUBSET Documents
      BY ONLY <2>1, MixedIs, Zenon
    <3> QED BY <2>1, <3>1, Zenon
  <2>3. m \in SUBSET Documents
    BY <1>2 DEF Meanings
  <2> QED BY <2>1, <2>2, <2>3 DEF Mixes
<1> QED BY <1>1, <1>2

LEMMA MixedType ==
    ASSUME NEW k, NEW S \in SUBSET Meanings
    PROVE  Mixed(k, S) \in Meanings
BY MixedIs DEF Meanings

\* Combining is associative: sets can be combined in parts first.
CombinesInParts(k, I, P) ==
    Mixed(k, UNION {P[i] : i \in I}) = Mixed(k, {Mixed(k, P[i]) : i \in I})

LEMMA MixedInParts ==
    ASSUME NEW k, NEW I, NEW P, \A i \in I : P[i] \in SUBSET Meanings
    PROVE  CombinesInParts(k, I, P)
<1>0. PICK U : U = UNION {P[i] : i \in I}
  OBVIOUS
<1>1. PICK Q : Q = {Mixed(k, P[i]) : i \in I}
  OBVIOUS
<1> DEFINE Live(i) == ~(P[i] \subseteq {NoFilter})
<1>2. U \in SUBSET Meanings /\ Q \in SUBSET Meanings
  BY <1>0, <1>1, MixedType
<1>3. PICK L : \A i \in I : L[i] = P[i] \ {NoFilter}
  <2> DEFINE F == [i \in I |-> P[i] \ {NoFilter}]
  <2>1. \A i \in I : F[i] = P[i] \ {NoFilter}
    OBVIOUS
  <2> HIDE DEF F
  <2> QED BY <2>1
<1>4. \A i \in I : /\ ~Live(i) => Mixed(k, P[i]) = NoFilter /\ L[i] = {}
                   /\ Live(i) => /\ Mixed(k, P[i]) # NoFilter /\ Mixed(k, P[i]) \in SUBSET Documents
                                 /\ Mixes(Mixed(k, P[i]), k, L[i]) /\ L[i] # {}
  <2>1. TAKE i \in I
  <2>2. PICK p : p = P[i] /\ p \in SUBSET Meanings /\ L[i] = p \ {NoFilter}
    BY <1>3
  <2>3. ASSUME ~(p \subseteq {NoFilter})
        PROVE  /\ Mixed(k, p) # NoFilter /\ Mixed(k, p) \in SUBSET Documents
               /\ Mixes(Mixed(k, p), k, p \ {NoFilter})
    <3>1. p \in SUBSET Meanings
      BY <2>2
    <3> QED BY ONLY <2>3, <3>1, MixedIs, Zenon
  <2>5. ~(p \subseteq {NoFilter}) => p \ {NoFilter} # {}
    OBVIOUS
  <2>4. p \subseteq {NoFilter} => Mixed(k, p) = NoFilter /\ p \ {NoFilter} = {}
    BY <2>2, MixedIs
  <2> QED BY <2>2, <2>3, <2>4, <2>5, Zenon
<1>5. CASE \A i \in I : ~Live(i)
  <2>1. U \subseteq {NoFilter}
    BY <1>0, <1>5
  <2>2. Q \subseteq {NoFilter}
    BY <1>1, <1>4, <1>5
  <2> QED BY <1>0, <1>1, <1>2, <2>1, <2>2, MixedIs DEF CombinesInParts
<1>6. CASE \E i \in I : Live(i)
  <2>1. ~(U \subseteq {NoFilter}) /\ ~(Q \subseteq {NoFilter})
    BY <1>0, <1>1, <1>4, <1>6
  <2>2. PICK V, W : V = U \ {NoFilter} /\ W = Q \ {NoFilter}
    OBVIOUS
  <2>3. /\ Mixed(k, U) \in SUBSET Documents /\ Mixes(Mixed(k, U), k, V)
        /\ Mixed(k, Q) \in SUBSET Documents /\ Mixes(Mixed(k, Q), k, W)
    BY <1>2, <2>1, <2>2, MixedIs
  <2>4. \A s : s \in V <=> \E i \in I : s \in L[i]
    BY <1>0, <1>3, <2>2
  <2>5. \A s : s \in W <=> \E i \in I : Live(i) /\ s = Mixed(k, P[i])
    BY <1>1, <1>4, <2>2
  <2> HIDE DEF Live
  <2>6. ASSUME NEW d PROVE d \in Mixed(k, U) <=> d \in Mixed(k, Q)
    <3>1. d \in Mixed(k, U) <=>
             /\ \E i \in I : \E s \in L[i] : d \in s
             /\ IsAnd(k) => \A i \in I : \A s \in L[i] : d \in s
      BY <2>3, <2>4 DEF Mixes
    <3>2. d \in Mixed(k, Q) <=>
             /\ \E i \in I : Live(i) /\ d \in Mixed(k, P[i])
             /\ IsAnd(k) => \A i \in I : Live(i) => d \in Mixed(k, P[i])
      BY <2>3, <2>5 DEF Mixes
    <3>3. \A i \in I : Live(i) =>
             (d \in Mixed(k, P[i]) <=>
                /\ \E s \in L[i] : d \in s
                /\ IsAnd(k) => \A s \in L[i] : d \in s)
      BY <1>4 DEF Mixes
    <3>4. \A i \in I : L[i] = {} <=> ~Live(i)
      BY <1>4
    <3>5. CASE IsAnd(k)
      <4>1. ASSUME NEW i \in I, Live(i)
            PROVE  (\A s \in L[i] : d \in s) <=> d \in Mixed(k, P[i])
        BY <3>3, <3>4, <3>5, <4>1
      <4>2. (\A i \in I : \A s \in L[i] : d \in s) <=> \A i \in I : Live(i) => d \in Mixed(k, P[i])
        BY <3>4, <4>1
      <4>3. (\A i \in I : Live(i) => d \in Mixed(k, P[i])) =>
               /\ \E i \in I : \E s \in L[i] : d \in s
               /\ \E i \in I : Live(i) /\ d \in Mixed(k, P[i])
        BY <1>6, <3>3
      <4> QED BY <3>1, <3>2, <3>5, <4>2, <4>3
    <3>6. CASE ~IsAnd(k)
      BY <3>1, <3>2, <3>3, <3>4, <3>6
    <3> QED BY <3>5, <3>6
  <2>7. Mixed(k, U) = Mixed(k, Q)
    BY <2>3, <2>6
  <2> QED BY <1>0, <1>1, <2>7 DEF CombinesInParts
<1> QED BY <1>5, <1>6

Hereditary(S) ==
    /\ \A x \in Names : Leaf(x) \in S
    /\ \A c \in Trees : (IsGroup(c) /\ \A i \in DOMAIN c.nodes : c.nodes[i] \in S) => c \in S

LEMMA TreesHave ==
    ASSUME NEW S, Hereditary(S)
    PROVE  Trees \subseteq S
<1>1. ASSUME NEW m \in Nat, NEW k \in Separators, NEW nodes \in Seq(TreesTo(m)),
             m < Deepest, nodes # <<>>, \A i \in DOMAIN nodes : nodes[i] \in S
      PROVE  Group(k, nodes) \in S
  <2>1. Group(k, nodes) \in TreesTo(m + 1)
    BY <1>1, GroupIsTree
  <2>2. TreesTo(m + 1) \subseteq Trees
    BY <1>1, DeepestIs, TreesToGrow
  <2>3. IsGroup(Group(k, nodes)) /\ Group(k, nodes).nodes = nodes
    BY KindIs
  <2>4. PICK c \in Trees : c = Group(k, nodes) /\ IsGroup(c) /\ c.nodes = nodes
    BY <2>1, <2>2, <2>3
  <2> QED BY <1>1, <2>4, Zenon DEF Hereditary
<1>2. Inductive(S, Deepest)
  BY <1>1, Zenon DEF Inductive, Hereditary
<1> QED BY <1>2, DeepestIs, TreeInduction

-----------------------------------------------------------------------------
(* What combine returns. *)

Filters(n) == TreesTo(n) \cup {Nil}

Pieces(ns, k) ==
    [i \in DOMAIN ns |-> IF ns[i] = Nil THEN <<>>
                         ELSE IF ns[i].k = k THEN ns[i].nodes ELSE <<ns[i]>>]

LEMMA PiecesType ==
    ASSUME NEW n \in Nat, NEW ns \in Seq(Filters(n)), NEW k \in Separators
    PROVE  Pieces(ns, k) \in Seq(Seq(TreesTo(n)))
<1>1. Len(ns) \in Nat /\ DOMAIN ns = 1..Len(ns)
  OBVIOUS
<1>2. ASSUME NEW i \in 1..Len(ns) PROVE Pieces(ns, k)[i] \in Seq(TreesTo(n))
  <2>1. PICK c : c = ns[i] /\ (c \in TreesTo(n) \/ c = Nil)
    BY DEF Filters
  <2>2. Pieces(ns, k)[i] = IF c = Nil THEN <<>> ELSE IF c.k = k THEN c.nodes ELSE <<c>>
    BY <1>1, <2>1 DEF Pieces
  <2>3. ASSUME c \in TreesTo(n), c.k = k PROVE c.nodes \in Seq(TreesTo(n))
    <3>1. IsGroup(c)
      BY <2>3 DEF IsGroup
    <3>2. PICK m \in Nat : m + 1 = n /\ c.nodes \in Seq(TreesTo(m))
      BY <2>3, <3>1, TreeOperands
    <3>3. TreesTo(m) \subseteq TreesTo(n)
      BY <3>2, TreesToGrow
    <3> QED BY <3>2, <3>3, SeqMonotonic
  <2>4. <<>> \in Seq(TreesTo(n)) /\ (c \in TreesTo(n) => <<c>> \in Seq(TreesTo(n)))
    <3>1. ASSUME NEW T, NEW x \in T PROVE <<x>> \in Seq(T)
      OBVIOUS
    <3>2. <<>> \in Seq(TreesTo(n))
      OBVIOUS
    <3> QED BY <3>1, <3>2, Zenon
  <2>5. CASE c = Nil
    BY <2>2, <2>4, <2>5
  <2>6. CASE c # Nil /\ c.k = k
    BY <2>1, <2>2, <2>3, <2>6
  <2>7. CASE c # Nil /\ c.k # k
    BY <2>1, <2>2, <2>4, <2>7
  <2> QED BY <2>5, <2>6, <2>7
<1>3. Pieces(ns, k) = [i \in 1..Len(ns) |-> Pieces(ns, k)[i]]
  BY <1>1 DEF Pieces
<1> QED BY <1>1, <1>2, <1>3, IsASeq

LEMMA FlatIs ==
    ASSUME NEW n \in Nat, NEW ns \in Seq(Filters(n)), NEW k \in Separators
    PROVE  /\ Flat(ns, k) \in Seq(TreesTo(n))
           /\ \A x : x \in ToSet(Flat(ns, k)) <=> \E i \in DOMAIN ns : x \in ToSet(Pieces(ns, k)[i])
<1>1. Flat(ns, k) = FlattenSeq(Pieces(ns, k))
  BY DEF Flat, Pieces
<1>2. Pieces(ns, k) \in Seq(Seq(TreesTo(n))) /\ DOMAIN Pieces(ns, k) = DOMAIN ns
  BY PiecesType DEF Pieces
<1>3. Gathers(Pieces(ns, k)) /\ FlattenSeq(Pieces(ns, k)) \in Seq(TreesTo(n))
  BY <1>2, FlattenMembers, FlattenType
<1> QED BY <1>1, <1>2, <1>3, Zenon DEF Gathers

LEMMA PieceIs ==
    ASSUME NEW ns, NEW i \in DOMAIN ns, NEW k
    PROVE  /\ ns[i] = Nil => ToSet(Pieces(ns, k)[i]) = {}
           /\ ns[i] # Nil /\ ns[i].k = k => ToSet(Pieces(ns, k)[i]) = ToSet(ns[i].nodes)
           /\ ns[i] # Nil /\ ns[i].k # k => ToSet(Pieces(ns, k)[i]) = {ns[i]}
<1>1. ToSet(<<>>) = {} /\ \A x : ToSet(<<x>>) = {x}
  BY DEF ToSet
<1>2. Pieces(ns, k)[i] = IF ns[i] = Nil THEN <<>> ELSE IF ns[i].k = k THEN ns[i].nodes ELSE <<ns[i]>>
  BY DEF Pieces
<1> QED BY <1>1, <1>2

\* What combine returns of what is left, its members being in S.
LEMMA CombineIs ==
    ASSUME NEW n \in Nat, NEW ns \in Seq(Filters(n)), NEW k \in Separators
    PROVE  \E flat \in Seq(TreesTo(n)) :
              /\ flat = Flat(ns, k)
              /\ \/ flat = <<>> /\ Combine(ns, k) = Nil
                 \/ Len(flat) = 1 /\ Combine(ns, k) = flat[1] /\ flat[1] \in TreesTo(n)
                    /\ ToSet(flat) = {flat[1]}
                 \/ Len(flat) >= 2 /\ flat # <<>> /\ Combine(ns, k) = Group(k, flat)
                    /\ Group(k, flat) \in TreesTo(n + 1)
<1>1. PICK flat \in Seq(TreesTo(n)) : flat = Flat(ns, k)
  BY FlatIs
<1>2. Combine(ns, k) = IF flat = <<>> THEN Nil ELSE IF Len(flat) = 1 THEN flat[1] ELSE Group(k, flat)
  BY <1>1 DEF Combine, Collapsed
<1>3. Len(flat) \in Nat /\ (flat # <<>> => Len(flat) # 0) /\ DOMAIN flat = 1..Len(flat)
  OBVIOUS
<1>4. CASE flat = <<>>
  BY <1>1, <1>2, <1>4
<1>5. CASE Len(flat) = 1
  <2>1. flat[1] \in TreesTo(n) /\ flat # <<>>
    <3>1. 1 \in 1..Len(flat)
      BY <1>5
    <3> QED BY <3>1, ElementOfSeq
  <2>2. ToSet(flat) = {flat[1]}
    BY <1>3, <1>5 DEF ToSet
  <2> QED BY <1>1, <1>2, <1>5, <2>1, <2>2
<1>6. CASE flat # <<>> /\ Len(flat) # 1
  <2>1. Len(flat) >= 2
    BY <1>3, <1>6
  <2>2. Group(k, flat) \in TreesTo(n + 1)
    BY <1>6, GroupIsTree
  <2> QED BY <1>1, <1>2, <1>6, <2>1, <2>2
<1> QED BY <1>4, <1>5, <1>6

LEMMA CombineLevel ==
    ASSUME NEW n \in Nat, NEW ns \in Seq(Filters(n)), NEW k \in Separators
    PROVE  Combine(ns, k) \in Filters(n + 1)
<1>1. TreesTo(n) \subseteq TreesTo(n + 1)
  BY TreesToGrow
<1> QED BY <1>1, CombineIs DEF Filters

-----------------------------------------------------------------------------
(* What filters select. *)

Replacements == [Names -> Names \cup {"drop"}]

LEMMA MeetsType == \A x : Meets(x) \in SUBSET Documents
BY DEF Meets

LEMMA ReplacedType ==
    ASSUME NEW fn
    PROVE  \A b \in Trees \cup {Nil} : Replaced(b, fn) \in Meanings
<1> DEFINE S == {b \in Trees : Replaced(b, fn) \in Meanings}
<1>1. ASSUME NEW x \in Names PROVE Leaf(x) \in S
  <2>1. Leaf(x) \in Trees
    BY LeafIsTree, DeepestIs
  <2> QED BY <2>1, ReplacedIs, MeetsType DEF Meanings
<1>2. ASSUME NEW c \in Trees, IsGroup(c), \A i \in DOMAIN c.nodes : c.nodes[i] \in S
      PROVE  c \in S
  <2>1. {Replaced(c.nodes[i], fn) : i \in DOMAIN c.nodes} \in SUBSET Meanings
    BY <1>2
  <2>2. PICK T \in SUBSET Meanings : T = {Replaced(c.nodes[i], fn) : i \in DOMAIN c.nodes}
    BY <2>1
  <2>3. Replaced(c, fn) = Mixed(c.k, T)
    BY <1>2, <2>2, ReplacedIs
  <2>4. Mixed(c.k, T) \in Meanings
    BY MixedType
  <2> QED BY <2>3, <2>4
<1>3. Hereditary(S)
  <2> HIDE DEF S
  <2> QED BY <1>1, <1>2 DEF Hereditary
<1>4. Trees \subseteq S
  BY <1>3, TreesHave
<1>5. Replaced(Nil, fn) \in Meanings
  BY ReplacedIs DEF Meanings
<1> QED BY <1>4, <1>5

\* What is combined selects what its operands do, combined.
LEMMA CombineMeaning ==
    ASSUME NEW fn, NEW n \in Nat, n < Deepest, NEW ns \in Seq(Filters(n)), NEW k \in Separators
    PROVE  Replaced(Combine(ns, k), fn) = Mixed(k, {Replaced(ns[i], fn) : i \in DOMAIN ns})
<1>1. TreesTo(n) \subseteq Trees /\ TreesTo(n + 1) \subseteq Trees
  BY DeepestIs, TreesToGrow
<1>2. ASSUME NEW i \in DOMAIN ns PROVE ns[i] \in Trees \cup {Nil}
  BY <1>1 DEF Filters
<1> DEFINE P == [i \in DOMAIN ns |-> {Replaced(x, fn) : x \in ToSet(Pieces(ns, k)[i])}]
<1>3. \A i \in DOMAIN ns : P[i] \in SUBSET Meanings /\ Mixed(k, P[i]) = Replaced(ns[i], fn)
  <2>1. TAKE i \in DOMAIN ns
  <2>2. PICK c \in Trees \cup {Nil} : c = ns[i]
    BY <1>2
  <2>3. Replaced(c, fn) \in Meanings
    BY ReplacedType
  <2>4. P[i] = {Replaced(x, fn) : x \in ToSet(Pieces(ns, k)[i])}
    BY Zenon
  <2> HIDE DEF P
  <2>5. CASE c = Nil
    <3>1. P[i] = {}
      BY <2>2, <2>4, <2>5, PieceIs
    <3> QED BY <2>2, <2>5, <3>1, MixedIs, ReplacedIs
  <2>6. CASE c # Nil /\ c.k = k
    <3>1. IsGroup(c) /\ c \in Trees
      BY <2>6 DEF IsGroup
    <3>2. ToSet(Pieces(ns, k)[i]) = ToSet(c.nodes)
      BY <2>2, <2>6, PieceIs
    <3>3. P[i] = {Replaced(c.nodes[j], fn) : j \in DOMAIN c.nodes}
      BY <2>4, <3>2 DEF ToSet
    <3>4. Mixed(k, P[i]) = Replaced(c, fn)
      BY <2>6, <3>1, <3>3, ReplacedIs
    <3>5. P[i] \in SUBSET Meanings
      BY <3>1, <3>3, ReplacedType, TopIs
    <3> QED BY <2>2, <3>4, <3>5
  <2>7. CASE c # Nil /\ c.k # k
    <3>0. ToSet(Pieces(ns, k)[i]) = {c}
      BY <2>2, <2>7, PieceIs, Zenon
    <3>1. P[i] = {Replaced(c, fn)}
      BY <2>4, <3>0
    <3> QED BY <2>2, <2>3, <3>1, MixedSingle
  <2> QED BY <2>5, <2>6, <2>7
<1>4. UNION {P[i] : i \in DOMAIN ns} = {Replaced(x, fn) : x \in ToSet(Flat(ns, k))}
  <2>1. \A x : x \in ToSet(Flat(ns, k)) <=> \E i \in DOMAIN ns : x \in ToSet(Pieces(ns, k)[i])
    BY FlatIs
  <2>2. \A i \in DOMAIN ns : P[i] = {Replaced(x, fn) : x \in ToSet(Pieces(ns, k)[i])}
    BY Zenon
  <2> HIDE DEF P
  <2> QED BY <2>1, <2>2
<1>5. {Mixed(k, P[i]) : i \in DOMAIN ns} = {Replaced(ns[i], fn) : i \in DOMAIN ns}
  <2> HIDE DEF P
  <2> QED BY <1>3
<1>6. Mixed(k, {Replaced(x, fn) : x \in ToSet(Flat(ns, k))}) = Mixed(k, {Replaced(ns[i], fn) : i \in DOMAIN ns})
  <2> HIDE DEF P
  <2>1. Mixed(k, UNION {P[i] : i \in DOMAIN ns}) = Mixed(k, {Mixed(k, P[i]) : i \in DOMAIN ns})
    <3>1. \A i \in DOMAIN ns : P[i] \in SUBSET Meanings
      BY <1>3
    <3>2. CombinesInParts(k, DOMAIN ns, P)
      BY <3>1, MixedInParts, Zenon
    <3> QED BY <3>2, Zenon DEF CombinesInParts
  <2> QED BY <1>4, <1>5, <2>1
<1> HIDE DEF P
<1>7. PICK flat \in Seq(TreesTo(n)) :
         /\ flat = Flat(ns, k)
         /\ \/ flat = <<>> /\ Combine(ns, k) = Nil
            \/ Len(flat) = 1 /\ Combine(ns, k) = flat[1] /\ flat[1] \in TreesTo(n)
               /\ ToSet(flat) = {flat[1]}
            \/ Len(flat) >= 2 /\ flat # <<>> /\ Combine(ns, k) = Group(k, flat)
               /\ Group(k, flat) \in TreesTo(n + 1)
  BY CombineIs
<1>8. PICK M : M = {Replaced(x, fn) : x \in ToSet(flat)}
  OBVIOUS
<1>9. Replaced(Combine(ns, k), fn) = Mixed(k, M)
  <2>1. CASE flat = <<>> /\ Combine(ns, k) = Nil
    <3>1. ToSet(flat) = {}
      BY <2>1 DEF ToSet
    <3>2. M = {}
      BY <1>8, <3>1
    <3> QED BY <2>1, <3>2, MixedIs, ReplacedIs
  <2>2. CASE Combine(ns, k) = flat[1] /\ flat[1] \in TreesTo(n) /\ ToSet(flat) = {flat[1]}
    <3>1. M = {Replaced(flat[1], fn)}
      BY <1>8, <2>2
    <3>2. Replaced(flat[1], fn) \in Meanings
      BY <1>1, <2>2, ReplacedType
    <3> QED BY <2>2, <3>1, <3>2, MixedSingle
  <2>3. CASE Combine(ns, k) = Group(k, flat) /\ Group(k, flat) \in TreesTo(n + 1)
    <3>1. M = {Replaced(flat[i], fn) : i \in DOMAIN flat}
      BY <1>8 DEF ToSet
    <3>2. PICK c \in Trees : c = Group(k, flat) /\ IsGroup(c) /\ c.nodes = flat /\ c.k = k
      BY <1>1, <2>3, KindIs
    <3>3. Replaced(c, fn) = Mixed(c.k, {Replaced(c.nodes[i], fn) : i \in DOMAIN c.nodes})
      BY <3>2, ReplacedIs
    <3> QED BY <2>3, <3>1, <3>2, <3>3
  <2> QED BY <1>7, <2>1, <2>2, <2>3
<1> QED BY <1>6, <1>7, <1>8, <1>9

-----------------------------------------------------------------------------
(* The shape of filters. *)

Alternates(b) == \A g \in Groups(b) : \A i \in DOMAIN g.nodes : g.nodes[i].k # g.k

LEMMA ShapeIs ==
    /\ Joins(Nil) /\ Alternates(Nil) /\ \A x \in Names : Joins(Leaf(x)) /\ Alternates(Leaf(x))
    /\ \A c \in Trees : IsGroup(c) =>
          /\ Joins(c) <=> Len(c.nodes) >= 2 /\ \A i \in DOMAIN c.nodes : Joins(c.nodes[i])
          /\ Alternates(c) <=> \A i \in DOMAIN c.nodes : c.nodes[i].k # c.k /\ Alternates(c.nodes[i])
<1>1. Joins(Nil) /\ Alternates(Nil) /\ \A x \in Names : Joins(Leaf(x)) /\ Alternates(Leaf(x))
  BY GroupsIs DEF Joins, Alternates
<1>2. ASSUME NEW c \in Trees, IsGroup(c)
      PROVE  /\ Joins(c) <=> Len(c.nodes) >= 2 /\ \A i \in DOMAIN c.nodes : Joins(c.nodes[i])
             /\ Alternates(c) <=> \A i \in DOMAIN c.nodes : c.nodes[i].k # c.k /\ Alternates(c.nodes[i])
  <2>1. \A g : g \in Groups(c) <=> g = c \/ \E i \in DOMAIN c.nodes : g \in Groups(c.nodes[i])
    BY <1>2, GroupsIs
  <2>2. Joins(c) <=> Len(c.nodes) >= 2 /\ \A i \in DOMAIN c.nodes : Joins(c.nodes[i])
    BY <2>1, Zenon DEF Joins
  <2>3. Alternates(c) <=> \A i \in DOMAIN c.nodes : c.nodes[i].k # c.k /\ Alternates(c.nodes[i])
    BY <2>1, Zenon DEF Alternates
  <2> QED BY <2>2, <2>3
<1> QED BY <1>1, <1>2

LEMMA GroupsAreTrees == \A b \in Trees \cup {Nil} : \A g \in Groups(b) : g \in Trees /\ IsGroup(g)
<1> DEFINE S == {b \in Trees : \A g \in Groups(b) : g \in Trees /\ IsGroup(g)}
<1>1. ASSUME NEW x \in Names PROVE Leaf(x) \in S
  <2>1. Leaf(x) \in Trees
    BY LeafIsTree, DeepestIs
  <2> QED BY <2>1, GroupsIs
<1>2. ASSUME NEW c \in Trees, IsGroup(c), \A i \in DOMAIN c.nodes : c.nodes[i] \in S
      PROVE  c \in S
  <2>1. \A g : g \in Groups(c) <=> g = c \/ \E i \in DOMAIN c.nodes : g \in Groups(c.nodes[i])
    BY <1>2, GroupsIs
  <2> QED BY <1>2, <2>1
<1>3. Hereditary(S)
  <2> HIDE DEF S
  <2> QED BY <1>1, <1>2 DEF Hereditary
<1>4. Trees \subseteq S
  BY <1>3, TreesHave
<1> QED BY <1>4, GroupsIs

\* fn leaves the comparisons of b alone.
Stays(c, fn) == \A x \in Names : c = Leaf(x) => fn[x] = x

StaysIn(g, fn) == \A i \in DOMAIN g.nodes : Stays(g.nodes[i], fn)

Fixed(b, fn) == Stays(b, fn) /\ \A g \in Groups(b) : StaysIn(g, fn)

LEMMA FixedIs ==
    ASSUME NEW fn
    PROVE  /\ Fixed(Nil, fn)
           /\ \A x \in Names : Fixed(Leaf(x), fn) <=> fn[x] = x
           /\ \A c \in Trees : IsGroup(c) =>
                 (Fixed(c, fn) <=> \A i \in DOMAIN c.nodes : Fixed(c.nodes[i], fn))
<1>1. Fixed(Nil, fn)
  <2>1. Groups(Nil) = {} /\ \A x : Leaf(x) # Nil
    BY GroupsIs, KindIs
  <2> QED BY <2>1, Zenon DEF Fixed, Stays
<1>2. ASSUME NEW x \in Names PROVE Fixed(Leaf(x), fn) <=> fn[x] = x
  <2>1. Groups(Leaf(x)) = {} /\ \A z : Leaf(x) = Leaf(z) => x = z
    BY GroupsIs, KindIs
  <2> QED BY <2>1, Zenon DEF Fixed, Stays
<1>3. ASSUME NEW c \in Trees, IsGroup(c)
      PROVE  Fixed(c, fn) <=> \A i \in DOMAIN c.nodes : Fixed(c.nodes[i], fn)
  <2>1. \A g : g \in Groups(c) <=> g = c \/ \E i \in DOMAIN c.nodes : g \in Groups(c.nodes[i])
    BY <1>3, GroupsIs
  <2>2. \A x : c # Leaf(x)
    BY <1>3, KindIs
  <2>3. Stays(c, fn)
    BY <2>2, Zenon DEF Stays
  <2>4. Fixed(c, fn) <=> StaysIn(c, fn) /\ \A i \in DOMAIN c.nodes :
                            \A g \in Groups(c.nodes[i]) : StaysIn(g, fn)
    BY <2>1, <2>3, Zenon DEF Fixed
  <2> QED BY <2>4, Zenon DEF Fixed, StaysIn
<1> QED BY <1>1, <1>2, <1>3

LEMMA FlatMember ==
    ASSUME NEW n \in Nat, n < Deepest, NEW ns \in Seq(Filters(n)), NEW k \in Separators,
           NEW x \in ToSet(Flat(ns, k))
    PROVE  \E i \in DOMAIN ns : \E c \in Trees :
              /\ c = ns[i]
              /\ \/ c = x /\ x.k # k
                 \/ IsGroup(c) /\ c.k = k /\ \E j \in DOMAIN c.nodes : x = c.nodes[j]
<1>1. TreesTo(n) \subseteq Trees
  BY DeepestIs, TreesToGrow
<1>2. PICK i \in DOMAIN ns : x \in ToSet(Pieces(ns, k)[i])
  BY FlatIs
<1>3. PICK c : c = ns[i] /\ c \in Trees \cup {Nil}
  BY <1>1 DEF Filters
<1>4. c # Nil
  BY <1>2, <1>3, PieceIs
<1>5. CASE c.k = k
  <2>1. x \in ToSet(c.nodes)
    BY <1>2, <1>3, <1>4, <1>5, PieceIs
  <2>2. IsGroup(c)
    BY <1>5 DEF IsGroup
  <2>3. \E j \in DOMAIN c.nodes : x = c.nodes[j]
    BY <2>1 DEF ToSet
  <2> QED BY <1>3, <1>4, <1>5, <2>2, <2>3
<1>6. CASE c.k # k
  <2>1. x \in {c}
    BY <1>2, <1>3, <1>4, <1>6, PieceIs, Zenon
  <2> QED BY <1>3, <1>4, <1>6, <2>1
<1> QED BY <1>5, <1>6

LEMMA FlatShape ==
    ASSUME NEW fn, NEW n \in Nat, n < Deepest, NEW ns \in Seq(Filters(n)), NEW k \in Separators,
           NEW x \in ToSet(Flat(ns, k))
    PROVE  /\ (\A i \in DOMAIN ns : Joins(ns[i])) => Joins(x)
           /\ (\A i \in DOMAIN ns : Alternates(ns[i])) => Alternates(x) /\ x.k # k
           /\ (\A i \in DOMAIN ns : Fixed(ns[i], fn)) => Fixed(x, fn)
<1>1. PICK i \in DOMAIN ns : \E c \in Trees :
         /\ c = ns[i]
         /\ \/ c = x /\ x.k # k
            \/ IsGroup(c) /\ c.k = k /\ \E j \in DOMAIN c.nodes : x = c.nodes[j]
  BY FlatMember
<1>2. PICK c \in Trees :
         /\ c = ns[i]
         /\ \/ c = x /\ x.k # k
            \/ IsGroup(c) /\ c.k = k /\ \E j \in DOMAIN c.nodes : x = c.nodes[j]
  BY <1>1
<1>3. CASE c = x /\ x.k # k
  BY <1>2, <1>3, Zenon
<1>4. CASE IsGroup(c) /\ c.k = k /\ \E j \in DOMAIN c.nodes : x = c.nodes[j]
  <2>1. PICK j \in DOMAIN c.nodes : x = c.nodes[j]
    BY <1>4
  <2>2. Joins(c) => Joins(x)
    BY <1>4, <2>1, ShapeIs
  <2>3. Alternates(c) => Alternates(x) /\ x.k # k
    BY <1>4, <2>1, ShapeIs
  <2>4. Fixed(c, fn) => Fixed(x, fn)
    BY <1>4, <2>1, FixedIs
  <2> QED BY <1>2, <2>2, <2>3, <2>4, Zenon
<1> QED BY <1>2, <1>3, <1>4

LEMMA CombineShape ==
    ASSUME NEW fn, NEW n \in Nat, n < Deepest, NEW ns \in Seq(Filters(n)), NEW k \in Separators
    PROVE  /\ (\A i \in DOMAIN ns : Joins(ns[i])) => Joins(Combine(ns, k))
           /\ (\A i \in DOMAIN ns : Alternates(ns[i])) => Alternates(Combine(ns, k))
           /\ (\A i \in DOMAIN ns : Fixed(ns[i], fn)) => Fixed(Combine(ns, k), fn)
<1>1. PICK flat \in Seq(TreesTo(n)) :
         /\ flat = Flat(ns, k)
         /\ \/ flat = <<>> /\ Combine(ns, k) = Nil
            \/ Len(flat) = 1 /\ Combine(ns, k) = flat[1] /\ flat[1] \in TreesTo(n)
               /\ ToSet(flat) = {flat[1]}
            \/ Len(flat) >= 2 /\ flat # <<>> /\ Combine(ns, k) = Group(k, flat)
               /\ Group(k, flat) \in TreesTo(n + 1)
  BY CombineIs
<1>2. \A x \in ToSet(flat) :
         /\ (\A i \in DOMAIN ns : Joins(ns[i])) => Joins(x)
         /\ (\A i \in DOMAIN ns : Alternates(ns[i])) => Alternates(x) /\ x.k # k
         /\ (\A i \in DOMAIN ns : Fixed(ns[i], fn)) => Fixed(x, fn)
  BY <1>1, FlatShape
<1>3. CASE Combine(ns, k) = Nil
  BY <1>3, ShapeIs, FixedIs, Zenon
<1>4. CASE Combine(ns, k) = flat[1] /\ ToSet(flat) = {flat[1]}
  BY <1>2, <1>4, Zenon
<1>5. CASE Len(flat) >= 2 /\ Combine(ns, k) = Group(k, flat) /\ Group(k, flat) \in TreesTo(n + 1)
  <2>1. TreesTo(n + 1) \subseteq Trees
    BY DeepestIs, TreesToGrow
  <2>2. PICK c \in Trees : c = Group(k, flat) /\ IsGroup(c) /\ c.nodes = flat /\ c.k = k
    BY <1>5, <2>1, KindIs
  <2>3. \A i \in DOMAIN c.nodes : c.nodes[i] \in ToSet(flat)
    BY <2>2 DEF ToSet
  <2>4. (\A i \in DOMAIN ns : Joins(ns[i])) => Joins(c)
    BY <1>2, <1>5, <2>2, <2>3, ShapeIs
  <2>5. (\A i \in DOMAIN ns : Alternates(ns[i])) => Alternates(c)
    BY <1>2, <2>2, <2>3, ShapeIs
  <2>6. (\A i \in DOMAIN ns : Fixed(ns[i], fn)) => Fixed(c, fn)
    BY <1>2, <2>2, <2>3, FixedIs
  <2> QED BY <1>5, <2>2, <2>4, <2>5, <2>6
<1> QED BY <1>1, <1>3, <1>4, <1>5

-----------------------------------------------------------------------------
(* Rewriting. *)

\* What Rewrite makes of c.
RewritesWell(c, fn) ==
    /\ \A m \in Nat : m =< Deepest /\ c \in TreesTo(m) => Rewrite(c, fn) \in Filters(m)
    /\ Joins(Rewrite(c, fn)) /\ Alternates(Rewrite(c, fn))
    /\ Settled(fn) => Fixed(Rewrite(c, fn), fn) /\ Meaning(Rewrite(c, fn)) = Replaced(c, fn)

LEMMA MeaningIs ==
    /\ Meaning(Nil) = NoFilter
    /\ \A x \in Names : Meaning(Leaf(x)) = Meets(x)
    /\ \A b \in Trees \cup {Nil} : Meaning(b) \in Meanings
<1>1. \A x \in Names : [y \in Names |-> y][x] = x /\ x # "drop"
  BY NamesAssumption
<1>2. PICK id : id = [y \in Names |-> y]
  OBVIOUS
<1>3. \A b : Meaning(b) = Replaced(b, id)
  BY <1>2, Zenon DEF Meaning
<1>4. \A x \in Names : Replaced(Leaf(x), id) = Meets(x)
  BY <1>1, <1>2, ReplacedIs
<1> QED BY <1>3, <1>4, ReplacedIs, ReplacedType

LEMMA ApplyIs ==
    ASSUME NEW fn \in Replacements
    PROVE  /\ Apply(fn, Nil) = Nil
           /\ \A c : IsGroup(c) => Apply(fn, c) = c
           /\ \A x \in Names : \/ fn[x] = "drop" /\ Apply(fn, Leaf(x)) = Nil
                               \/ fn[x] # "drop" /\ fn[x] \in Names /\ Apply(fn, Leaf(x)) = Leaf(fn[x])
<1>1. Nil.k # "cmp" /\ \A c : IsGroup(c) => c.k # "cmp"
  BY DEF Nil, IsGroup, Separators
<1>2. \A x \in Names : fn[x] \in Names \cup {"drop"}
  BY DEF Replacements
<1>3. \A x \in Names : Apply(fn, Leaf(x)) = IF fn[x] = "drop" THEN Nil ELSE Leaf(fn[x])
  BY KindIs DEF Apply
<1>4. Apply(fn, Nil) = Nil /\ \A c : IsGroup(c) => Apply(fn, c) = c
  BY <1>1 DEF Apply
<1> QED BY <1>2, <1>3, <1>4

LEMMA LeafRewrites ==
    ASSUME NEW fn \in Replacements, NEW x \in Names
    PROVE  RewritesWell(Leaf(x), fn)
<1>1. Rewrite(Leaf(x), fn) = Apply(fn, Leaf(x))
  BY RewriteIs
<1>2. Replaced(Leaf(x), fn) = IF fn[x] = "drop" THEN NoFilter ELSE Meets(fn[x])
  BY ReplacedIs
<1>3. CASE fn[x] = "drop"
  <2>1. Rewrite(Leaf(x), fn) = Nil
    BY <1>1, <1>3, ApplyIs
  <2>2. \A m \in Nat : Nil \in Filters(m)
    BY DEF Filters
  <2> QED BY <1>2, <1>3, <2>1, <2>2, ShapeIs, FixedIs, MeaningIs, Zenon DEF RewritesWell
<1>4. CASE fn[x] # "drop"
  <2>1. Rewrite(Leaf(x), fn) = Leaf(fn[x]) /\ fn[x] \in Names
    BY <1>1, <1>4, ApplyIs
  <2>2. PICK y \in Names : y = fn[x]
    BY <2>1
  <2>3. \A m \in Nat : Leaf(y) \in Filters(m)
    BY LeafIsTree DEF Filters
  <2>4. Settled(fn) => Fixed(Leaf(y), fn)
    BY <1>4, <2>2, FixedIs DEF Settled
  <2>5. Joins(Leaf(y)) /\ Alternates(Leaf(y)) /\ Meaning(Leaf(y)) = Replaced(Leaf(x), fn)
    BY <1>2, <1>4, <2>2, ShapeIs, MeaningIs
  <2> QED BY <2>1, <2>2, <2>3, <2>4, <2>5, Zenon DEF RewritesWell
<1> QED BY <1>3, <1>4

LEMMA GroupRewrites ==
    ASSUME NEW fn \in Replacements, NEW c \in Trees, IsGroup(c),
           \A i \in DOMAIN c.nodes : RewritesWell(c.nodes[i], fn)
    PROVE  RewritesWell(c, fn)
<1>1. PICK row : row = [i \in DOMAIN c.nodes |-> Rewrite(c.nodes[i], fn)]
  OBVIOUS
<1>2. PICK k \in Separators : k = c.k
  BY TopIs
<1>3. PICK d : d = Combine(row, k)
  OBVIOUS
<1>4. Rewrite(c, fn) = Apply(fn, d)
  BY <1>1, <1>2, <1>3, RewriteIs
<1>5. ASSUME NEW m \in Nat, m =< Deepest, c \in TreesTo(m)
      PROVE  \E l \in Nat : l + 1 = m /\ l < Deepest /\ row \in Seq(Filters(l))
  <2>1. PICK l \in Nat : l + 1 = m /\ c.nodes \in Seq(TreesTo(l))
    BY <1>5, TreeOperands
  <2>2. l < Deepest /\ l =< Deepest
    BY <1>5, <2>1, DeepestIs
  <2>3. ASSUME NEW i \in DOMAIN c.nodes PROVE Rewrite(c.nodes[i], fn) \in Filters(l)
    <3>1. c.nodes[i] \in TreesTo(l)
      BY <2>1
    <3> QED BY <2>2, <3>1, Zenon DEF RewritesWell
  <2>4. Len(c.nodes) \in Nat /\ DOMAIN c.nodes = 1..Len(c.nodes)
    BY <2>1
  <2>5. row \in Seq(Filters(l))
    <3>1. row = [i \in 1..Len(c.nodes) |-> Rewrite(c.nodes[i], fn)]
      BY <1>1, <2>4, Zenon
    <3>2. \A i \in 1..Len(c.nodes) : Rewrite(c.nodes[i], fn) \in Filters(l)
      BY <2>3, <2>4, Zenon
    <3> QED BY <2>4, <3>1, <3>2, IsASeq
  <2> QED BY <2>1, <2>2, <2>5
<1>6. PICK l \in Nat : l + 1 = Deepest /\ l < Deepest /\ row \in Seq(Filters(l))
  BY <1>5, DeepestIs
<1>7. DOMAIN row = DOMAIN c.nodes /\ \A i \in DOMAIN row : row[i] = Rewrite(c.nodes[i], fn)
  BY <1>1
<1>8. Joins(d) /\ Alternates(d) /\ (Settled(fn) => Fixed(d, fn))
  <2>1. /\ \A i \in DOMAIN row : Joins(row[i]) /\ Alternates(row[i])
        /\ Settled(fn) => \A i \in DOMAIN row : Fixed(row[i], fn)
    BY <1>7, Zenon DEF RewritesWell
  <2> QED BY <1>3, <1>6, <2>1, CombineShape
<1>9. Settled(fn) => Meaning(d) = Replaced(c, fn)
  <2>1. SUFFICES ASSUME Settled(fn) PROVE Meaning(d) = Replaced(c, fn)
    OBVIOUS
  <2>2. Meaning(d) = Mixed(k, {Meaning(row[i]) : i \in DOMAIN row})
    <3>1. PICK id : id = [x \in Names |-> x]
      OBVIOUS
    <3>2. \A b : Meaning(b) = Replaced(b, id)
      BY <3>1, Zenon DEF Meaning
    <3>3. Replaced(Combine(row, k), id) = Mixed(k, {Replaced(row[i], id) : i \in DOMAIN row})
      BY <1>6, CombineMeaning
    <3> QED BY <1>3, <3>2, <3>3
  <2>3. \A i \in DOMAIN row : Meaning(row[i]) = Replaced(c.nodes[i], fn)
    BY <1>7, <2>1, Zenon DEF RewritesWell
  <2>4. {Meaning(row[i]) : i \in DOMAIN row} = {Replaced(c.nodes[i], fn) : i \in DOMAIN c.nodes}
    BY <1>7, <2>3
  <2>5. Replaced(c, fn) = Mixed(k, {Replaced(c.nodes[i], fn) : i \in DOMAIN c.nodes})
    BY <1>2, ReplacedIs
  <2> QED BY <2>2, <2>4, <2>5
<1>10. \A m \in Nat : m =< Deepest /\ c \in TreesTo(m) => d \in Filters(m)
  <2>1. SUFFICES ASSUME NEW m \in Nat, m =< Deepest, c \in TreesTo(m) PROVE d \in Filters(m)
    OBVIOUS
  <2>2. PICK j \in Nat : j + 1 = m /\ row \in Seq(Filters(j))
    BY <1>5, <2>1
  <2>3. Combine(row, k) \in Filters(j + 1)
    BY <2>2, CombineLevel
  <2> QED BY <1>3, <2>2, <2>3
<1>11. d \in Trees \cup {Nil}
  BY <1>10, DeepestIs DEF Filters
<1>12. CASE d = Nil \/ IsGroup(d)
  <2>1. Rewrite(c, fn) = d
    BY <1>4, <1>12, ApplyIs
  <2> QED BY <1>8, <1>9, <1>10, <2>1, Zenon DEF RewritesWell
<1>13. CASE d # Nil /\ ~IsGroup(d)
  <2>1. PICK x \in Names : d = Leaf(x)
    BY <1>11, <1>13, TopIs
  <2>2. CASE Settled(fn)
    <3>1. fn[x] = x /\ x # "drop"
      BY <1>8, <2>1, <2>2, FixedIs, NamesAssumption
    <3>2. Rewrite(c, fn) = d
      BY <1>4, <2>1, <3>1, ApplyIs
    <3> QED BY <1>8, <1>9, <1>10, <3>2, Zenon DEF RewritesWell
  <2>3. CASE ~Settled(fn)
    <3>1. PICK e : e = Rewrite(c, fn) /\ (e = Nil \/ \E y \in Names : e = Leaf(y))
      BY <1>4, <2>1, ApplyIs
    <3>2. Joins(e) /\ Alternates(e)
      BY <3>1, ShapeIs
    <3>3. \A m \in Nat : e \in Filters(m)
      BY <3>1, LeafIsTree DEF Filters
    <3> QED BY <2>3, <3>1, <3>2, <3>3, Zenon DEF RewritesWell
  <2> QED BY <2>2, <2>3
<1> QED BY <1>11, <1>12, <1>13

LEMMA TreesRewrite ==
    ASSUME NEW fn \in Replacements
    PROVE  \A c \in Trees : RewritesWell(c, fn)
<1> DEFINE S == {c \in Trees : RewritesWell(c, fn)}
<1>1. ASSUME NEW x \in Names PROVE Leaf(x) \in S
  <2>1. Leaf(x) \in Trees
    BY LeafIsTree, DeepestIs
  <2> QED BY <2>1, LeafRewrites
<1>2. ASSUME NEW c \in Trees, IsGroup(c), \A i \in DOMAIN c.nodes : c.nodes[i] \in S
      PROVE  c \in S
  BY <1>2, GroupRewrites
<1>3. Hereditary(S)
  <2> HIDE DEF S
  <2> QED BY <1>1, <1>2 DEF Hereditary
<1>4. Trees \subseteq S
  BY <1>3, TreesHave
<1> QED BY <1>4

-----------------------------------------------------------------------------
(***************************************************************************)
(* The invariant.  A filter has as many levels as its bounds and           *)
(* predicates and one for each call; none of its groups has one operand;   *)
(* what Rewrite returns alternates; and it selects what was asked for.     *)
(***************************************************************************)
Held ==
    /\ calls \in Nat /\ calls =< MaxCalls
    /\ filter \in Filters(Levels + calls)

TreeInv ==
    /\ Held
    /\ Joins(filter)
    /\ last = "Rewrite" => Alternates(filter)
    /\ MeaningKept

LEMMA FilterIsTree ==
    ASSUME NEW n \in Nat, n =< MaxCalls, NEW b \in Filters(Levels + n)
    PROVE  b \in Trees \cup {Nil}
<1>1. Levels + n \in Nat /\ Levels + n =< Deepest
  BY TreesAssumption DEF Deepest
<1>2. TreesTo(Levels + n) \subseteq Trees
  BY <1>1, DeepestIs, TreesToGrow
<1> QED BY <1>2 DEF Filters

\* What All and Any return of a filter and a predicate.
LEMMA JoinsWell ==
    ASSUME NEW n \in Nat, n < MaxCalls, NEW b \in Filters(Levels + n), NEW p \in Predicates,
           NEW k \in Separators, Joins(b)
    PROVE  /\ Combine(<<b, p>>, k) \in Filters(Levels + (n + 1))
           /\ Joins(Combine(<<b, p>>, k))
           /\ Meaning(Combine(<<b, p>>, k)) = Mixed(k, {Meaning(b), Meaning(p)})
<1>1. PICK l \in Nat : l = Levels + n /\ l < Deepest /\ l + 1 = Levels + (n + 1) /\ Levels =< l
  BY TreesAssumption DEF Deepest
<1>2. p \in Filters(Levels) /\ Joins(p)
  BY TreesAssumption DEF Filters
<1>3. TreesTo(Levels) \subseteq TreesTo(l)
  BY <1>1, TreesAssumption, TreesToGrow
<1>4. PICK ns : ns = <<b, p>>
  OBVIOUS
<1>5. ns \in Seq(Filters(l)) /\ DOMAIN ns = {1, 2} /\ ns[1] = b /\ ns[2] = p
  BY <1>1, <1>2, <1>3, <1>4 DEF Filters
<1>6. Combine(ns, k) \in Filters(l + 1)
  BY <1>5, CombineLevel
<1>7. Joins(Combine(ns, k))
  <2>1. \A i \in DOMAIN ns : Joins(ns[i])
    BY <1>2, <1>5
  <2> QED BY <1>1, <1>5, <2>1, CombineShape
<1>8. Meaning(Combine(ns, k)) = Mixed(k, {Meaning(b), Meaning(p)})
  <2>1. PICK id : id = [x \in Names |-> x]
    OBVIOUS
  <2>2. \A c : Meaning(c) = Replaced(c, id)
    BY <2>1, Zenon DEF Meaning
  <2>3. Replaced(Combine(ns, k), id) = Mixed(k, {Replaced(ns[i], id) : i \in DOMAIN ns})
    <3>1. l \in Nat /\ l < Deepest /\ ns \in Seq(Filters(l)) /\ k \in Separators
      BY <1>1, <1>5
    <3> QED BY ONLY <3>1, CombineMeaning
  <2>4. {Replaced(ns[i], id) : i \in DOMAIN ns} = {Replaced(b, id), Replaced(p, id)}
    BY <1>5
  <2> QED BY <2>2, <2>3, <2>4
<1> QED BY <1>1, <1>4, <1>6, <1>7, <1>8

LEMMA Begins == TreeInit => TreeInv
<1>1. SUFFICES ASSUME TreeInit PROVE TreeInv
  OBVIOUS
<1>2. filter \in Filters(Levels) /\ Joins(filter)
  BY <1>1, TreesAssumption DEF TreeInit, Filters
<1>3. calls = 0 /\ last = "Bind" /\ Meaning(filter) = asked
  BY <1>1 DEF TreeInit
<1>4. Levels + calls = Levels /\ calls \in Nat /\ calls =< MaxCalls
  BY <1>3, TreesAssumption
<1> QED BY <1>2, <1>3, <1>4 DEF TreeInv, Held, MeaningKept

LEMMA Keeps == TreeInv /\ [TreeNext]_treeVars => TreeInv'
<1>1. SUFFICES ASSUME TreeInv, [TreeNext]_treeVars PROVE TreeInv'
  OBVIOUS
<1>2. calls \in Nat /\ calls =< MaxCalls /\ filter \in Filters(Levels + calls) /\ Joins(filter)
  BY <1>1 DEF TreeInv, Held
<1>3. settled => Meaning(filter) = asked
  BY <1>1 DEF TreeInv, MeaningKept
<1>4. ASSUME NEW p \in Predicates, CallAll(p) PROVE TreeInv'
  <2>1. PICK k \in Separators : k = ";"
    BY DEF Separators
  <2>2. /\ calls < MaxCalls /\ calls' = calls + 1 /\ last' = "All" /\ settled' = settled
        /\ filter' = Combine(<<filter, p>>, k) /\ asked' = Mixed(k, {asked, Meaning(p)})
    BY <1>4, <2>1, Zenon DEF CallAll, Call, AllOf
  <2>3. /\ filter' \in Filters(Levels + (calls + 1)) /\ Joins(filter')
        /\ Meaning(filter') = Mixed(k, {Meaning(filter), Meaning(p)})
    BY <1>2, <2>2, JoinsWell
  <2>4. calls' \in Nat /\ calls' =< MaxCalls
    BY <1>2, <2>2, TreesAssumption
  <2>5. last' # "Rewrite" /\ (settled' => Meaning(filter') = asked')
    BY <1>3, <2>2, <2>3
  <2> QED BY <2>2, <2>3, <2>4, <2>5 DEF TreeInv, Held, MeaningKept
<1>5. ASSUME NEW p \in Predicates, CallAny(p) PROVE TreeInv'
  <2>1. PICK k \in Separators : k = ","
    BY DEF Separators
  <2>2. /\ calls < MaxCalls /\ calls' = calls + 1 /\ last' = "Any" /\ settled' = settled
        /\ filter' = Combine(<<filter, p>>, k) /\ asked' = Mixed(k, {asked, Meaning(p)})
    BY <1>5, <2>1, Zenon DEF CallAny, Call, AnyOf
  <2>3. /\ filter' \in Filters(Levels + (calls + 1)) /\ Joins(filter')
        /\ Meaning(filter') = Mixed(k, {Meaning(filter), Meaning(p)})
    BY <1>2, <2>2, JoinsWell
  <2>4. calls' \in Nat /\ calls' =< MaxCalls
    BY <1>2, <2>2, TreesAssumption
  <2>5. last' # "Rewrite" /\ (settled' => Meaning(filter') = asked')
    BY <1>3, <2>2, <2>3
  <2> QED BY <2>2, <2>3, <2>4, <2>5 DEF TreeInv, Held, MeaningKept
<1>6. ASSUME NEW fn \in Rewriters, CallRewrite(fn) PROVE TreeInv'
  <2>1. /\ calls < MaxCalls /\ calls' = calls + 1 /\ settled' = (settled /\ Settled(fn))
        /\ filter' = Rewrite(filter, fn) /\ asked' = Replaced(filter, fn)
    BY <1>6, Zenon DEF CallRewrite, Call
  <2>2. fn \in Replacements
    BY RewritersAssumption DEF Replacements
  <2>3. PICK n \in Nat : n = Levels + calls /\ n =< Deepest /\ Levels + (calls + 1) = n + 1
    BY <1>2, TreesAssumption DEF Deepest
  <2>4. /\ Rewrite(filter, fn) \in Filters(n)
        /\ Joins(Rewrite(filter, fn)) /\ Alternates(Rewrite(filter, fn))
        /\ Settled(fn) => Meaning(Rewrite(filter, fn)) = Replaced(filter, fn)
    <3>1. CASE filter = Nil
      BY <3>1, RewriteIs, ReplacedIs, MeaningIs, ShapeIs DEF Filters
    <3>2. CASE filter # Nil
      <4>1. filter \in TreesTo(n) /\ filter \in Trees
        BY <1>2, <2>3, <3>2, FilterIsTree DEF Filters
      <4> QED BY <2>2, <2>3, <4>1, TreesRewrite, Zenon DEF RewritesWell
    <3> QED BY <3>1, <3>2
  <2>5. filter' \in Filters(Levels + (calls + 1))
    <3>1. TreesTo(n) \subseteq TreesTo(n + 1)
      BY TreesToGrow
    <3> QED BY <2>1, <2>3, <2>4, <3>1 DEF Filters
  <2>6. calls' \in Nat /\ calls' =< MaxCalls
    BY <1>2, <2>1, TreesAssumption
  <2>7. settled' => Meaning(filter') = asked'
    BY <2>1, <2>4, Zenon
  <2> QED BY <2>1, <2>4, <2>5, <2>6, <2>7 DEF TreeInv, Held, MeaningKept
<1>7. ASSUME UNCHANGED treeVars PROVE TreeInv'
  BY <1>1, <1>7 DEF treeVars, TreeInv, Held, MeaningKept
<1> QED BY <1>1, <1>4, <1>5, <1>6, <1>7 DEF TreeNext

THEOREM TreeInvariance == TreeSpec => []TreeInv
BY Begins, Keeps, PTL DEF TreeSpec

THEOREM MeaningIsKept == TreeSpec => []MeaningKept
<1>1. TreeInv => MeaningKept
  BY DEF TreeInv
<1> QED BY <1>1, TreeInvariance, PTL

THEOREM ShapeIsKept == TreeSpec => []WellShaped
<1>1. TreeInv => WellShaped
  <2>1. SUFFICES ASSUME TreeInv PROVE WellShaped
    OBVIOUS
  <2>2. filter \in Trees \cup {Nil} /\ Joins(filter)
    BY <2>1, FilterIsTree DEF TreeInv, Held
  <2>3. ASSUME NEW g \in Groups(filter) PROVE Nil \notin ToSet(g.nodes)
    <3>1. g \in Trees /\ IsGroup(g)
      BY <2>2, GroupsAreTrees
    <3>2. \A i \in DOMAIN g.nodes : g.nodes[i] # Nil
      BY <3>1, TopIs
    <3> QED BY <3>2 DEF ToSet
  <2>4. last = "Rewrite" => Alternates(filter)
    BY <2>1 DEF TreeInv
  <2> QED BY <2>2, <2>3, <2>4, Zenon DEF WellShaped, Alternates
<1> QED BY <1>1, TreeInvariance, PTL

-----------------------------------------------------------------------------
(***************************************************************************)
(* From an expression to what the datastore finds.                         *)
(***************************************************************************)

Codes == Equalities \cup Orderings \cup Memberships

NodesTo(n) == TreesOf(Conditions, Separators, n)

\* Comparisons as the binder leaves them.
BoundConditions ==
    {c \in Conditions : c.sel \in DOMAIN Schema /\ (c.op \notin Memberships => Len(c.args) = 1)}

BoundTo(n) == TreesOf(BoundConditions, Separators, n)

DocumentKinds == {"$and", "$or"}

DocumentsTo(n) == TreesOf(Clauses, DocumentKinds, n)

LEMMA ConditionsPlain ==
    NoGroups(Conditions) /\ NoGroups(BoundConditions) /\ NoGroups(Clauses)
<1>1. \A c \in Conditions : c.k = "cmp"
  BY DEF Conditions
<1>2. \A c \in Clauses : c.k \in {"$eq", "$ne", "$gt", "$gte", "$lt", "$lte", "$in", "$nin"}
  BY DEF Clauses
<1>3. NoGroups(Conditions) /\ NoGroups(BoundConditions)
  BY <1>1 DEF NoGroups, Kinds, Separators, BoundConditions
<1>4. NoGroups(Clauses)
  BY <1>2 DEF NoGroups, Kinds, Separators
<1> QED BY <1>3, <1>4

LEMMA NodesCompute ==
    ASSUME NEW op, NEW fn
    PROVE  /\ \E f : Computes(f, op, Nodes, fn)
           /\ \E f : Computes(f, op, MongoFilters, fn)
BY KeyboardsAssumption, ConditionsPlain, ComputesExists, Zenon DEF Nodes, MongoFilters

\* A node is a comparison or a group of smaller nodes.
LEMMA NodeIs ==
    ASSUME NEW n \in Nat, n =< Levels, NEW c \in NodesTo(n)
    PROVE  /\ c \in Nodes
           /\ ~IsGroup(c) => c \in Conditions
           /\ IsGroup(c) => \E m \in Nat : /\ m + 1 = n /\ c.nodes \in Seq(NodesTo(m))
                                           /\ c.nodes # <<>> /\ c.k \in Separators
                                           /\ \A i \in DOMAIN c.nodes : c.nodes[i] \in Nodes
<1>1. \A m \in Nat : m =< Levels => NodesTo(m) \subseteq Nodes
  BY KeyboardsAssumption, TreesOfGrow DEF NodesTo, Nodes
<1>2. ASSUME ~IsGroup(c) PROVE c \in Conditions
  <2>1. c \in Conditions \/ IsAbove(c, Conditions, Separators, n)
    BY TreeOfIs DEF NodesTo
  <2> QED BY <1>2, <2>1, AboveIsGroup
<1>3. ASSUME IsGroup(c)
      PROVE  \E m \in Nat : /\ m + 1 = n /\ c.nodes \in Seq(NodesTo(m))
                            /\ c.nodes # <<>> /\ c.k \in Separators
                            /\ \A i \in DOMAIN c.nodes : c.nodes[i] \in Nodes
  <2>1. c.k \in Kinds
    BY <1>3 DEF IsGroup, Kinds
  <2>2. PICK m \in Nat : /\ m + 1 = n /\ c.nodes \in Seq(NodesTo(m)) /\ c.nodes # <<>>
                         /\ c.k \in Separators
    BY <2>1, ConditionsPlain, OperandsSmaller DEF NodesTo
  <2>3. NodesTo(m) \subseteq Nodes
    <3>1. m =< Levels
      BY <2>2, KeyboardsAssumption
    <3> QED BY <1>1, <3>1
  <2>4. \A i \in DOMAIN c.nodes : c.nodes[i] \in NodesTo(m)
    BY <2>2
  <2> QED BY <2>2, <2>3, <2>4
<1> QED BY <1>1, <1>2, <1>3

LEMMA TopNodeIs ==
    ASSUME NEW c \in Nodes
    PROVE  /\ ~IsGroup(c) => c \in Conditions
           /\ IsGroup(c) => /\ c.k \in Separators
                            /\ \A i \in DOMAIN c.nodes : c.nodes[i] \in Nodes
<1>1. Levels \in Nat /\ Levels =< Levels /\ c \in NodesTo(Levels)
  BY KeyboardsAssumption DEF NodesTo, Nodes
<1> QED BY <1>1, NodeIs, Zenon

-----------------------------------------------------------------------------
(* What the recursive operators give. *)

LEMMA WalkComputes ==
    ASSUME NEW lim
    PROVE  \E f : Computes(f, "Walk", Nodes, lim) /\ \A n, d : Walk(n, d, lim) = f[n][d]
<1> DEFINE f == CHOOSE f : f = [c \in Nodes |->
                  [d \in Nat |->
                     IF lim.depth > 0 /\ d > lim.depth THEN Refused
                     ELSE IF ~IsGroup(c) THEN BindComparison(c)
                     ELSE LET ns == [i \in DOMAIN c.nodes |-> f[c.nodes[i]][d + 1]]
                          IN  IF Refused \in ToSet(ns) THEN Refused ELSE Group(c.k, ns)]]
<1>1. \E g : g = [c \in Nodes |-> WalkStep(c, g, lim)]
  <2>1. \E g : Computes(g, "Walk", Nodes, lim)
    BY NodesCompute
  <2> QED BY <2>1 DEF Computes, Step
<1>2. f = [c \in Nodes |-> WalkStep(c, f, lim)]
  BY <1>1, Zenon DEF WalkStep
<1>3. \A n, d : Walk(n, d, lim) = f[n][d]
  BY Zenon DEF Walk
<1> HIDE DEF f
<1>4. Computes(f, "Walk", Nodes, lim)
  BY <1>2 DEF Computes, Step
<1> QED BY <1>3, <1>4

LEMMA WalkIs ==
    ASSUME NEW lim, NEW c \in Nodes, NEW d \in Nat
    PROVE  \/ Walk(c, d, lim) = Refused
           \/ ~IsGroup(c) /\ Walk(c, d, lim) = BindComparison(c)
           \/ /\ IsGroup(c)
              /\ \A i \in DOMAIN c.nodes : Walk(c.nodes[i], d + 1, lim) # Refused
              /\ Walk(c, d, lim)
                   = Group(c.k, [i \in DOMAIN c.nodes |-> Walk(c.nodes[i], d + 1, lim)])
<1>1. PICK f : Computes(f, "Walk", Nodes, lim) /\ \A n, e : Walk(n, e, lim) = f[n][e]
  BY WalkComputes
<1>2. f[c] = WalkStep(c, f, lim)
  <2>1. f = [x \in Nodes |-> WalkStep(x, f, lim)]
    BY <1>1 DEF Computes, Step
  <2> QED BY <2>1, Zenon
<1> DEFINE ns == [i \in DOMAIN c.nodes |-> f[c.nodes[i]][d + 1]]
<1>3. f[c][d] = IF lim.depth > 0 /\ d > lim.depth THEN Refused
                ELSE IF ~IsGroup(c) THEN BindComparison(c)
                ELSE IF Refused \in ToSet(ns) THEN Refused ELSE Group(c.k, ns)
  BY <1>2, Zenon DEF WalkStep
<1>4. ns = [i \in DOMAIN c.nodes |-> Walk(c.nodes[i], d + 1, lim)]
  BY <1>1, Zenon
<1>5. Refused \notin ToSet(ns) => \A i \in DOMAIN c.nodes : Walk(c.nodes[i], d + 1, lim) # Refused
  BY <1>4 DEF ToSet
<1>6. Walk(c, d, lim) = f[c][d]
  BY <1>1, Zenon
<1> HIDE DEF ns
<1> QED BY <1>3, <1>4, <1>5, <1>6, Zenon

LEMMA ToFilterComputes ==
    \E f : Computes(f, "ToFilter", Nodes, <<>>) /\ \A b : ToFilter(b) = f[b]
<1> DEFINE f == CHOOSE f : f = [c \in Nodes |->
                  IF IsGroup(c)
                  THEN Group(IF c.k = ";" THEN "$and" ELSE "$or",
                             [i \in DOMAIN c.nodes |-> f[c.nodes[i]]])
                  ELSE [k |-> MongoOperators[c.op], column |-> Schema[c.sel].column,
                        values |-> IF c.op \in Memberships THEN ToSet(c.args) ELSE {c.args[1]}]]
<1>1. \E g : g = [c \in Nodes |-> ToFilterStep(c, g)]
  <2>1. \E g : Computes(g, "ToFilter", Nodes, <<>>)
    BY NodesCompute
  <2> QED BY <2>1 DEF Computes, Step
<1>2. f = [c \in Nodes |-> ToFilterStep(c, f)]
  BY <1>1, Zenon DEF ToFilterStep
<1>3. \A b : ToFilter(b) = f[b]
  BY Zenon DEF ToFilter
<1> HIDE DEF f
<1>4. Computes(f, "ToFilter", Nodes, <<>>)
  BY <1>2 DEF Computes, Step
<1> QED BY <1>3, <1>4

Clause(c) ==
    [k |-> MongoOperators[c.op], column |-> Schema[c.sel].column,
     values |-> IF c.op \in Memberships THEN ToSet(c.args) ELSE {c.args[1]}]

LEMMA ToFilterIs ==
    ASSUME NEW c \in Nodes
    PROVE  /\ ~IsGroup(c) => ToFilter(c) = Clause(c)
           /\ IsGroup(c) => ToFilter(c) = Group(IF c.k = ";" THEN "$and" ELSE "$or",
                                                [i \in DOMAIN c.nodes |-> ToFilter(c.nodes[i])])
<1>1. PICK f : Computes(f, "ToFilter", Nodes, <<>>) /\ \A b : ToFilter(b) = f[b]
  BY ToFilterComputes
<1>2. f[c] = ToFilterStep(c, f)
  <2>1. f = [x \in Nodes |-> ToFilterStep(x, f)]
    BY <1>1 DEF Computes, Step
  <2> QED BY <2>1, Zenon
<1>3. [i \in DOMAIN c.nodes |-> ToFilter(c.nodes[i])] = [i \in DOMAIN c.nodes |-> f[c.nodes[i]]]
  BY <1>1, Zenon
<1> QED BY <1>1, <1>2, <1>3, Zenon DEF ToFilterStep, Clause

LEMMA FindsComputes ==
    \E f : Computes(f, "Finds", MongoFilters, <<>>) /\ \A b : MongoFinds(b) = f[b]
<1> DEFINE Satisfies(x, c) ==
               \E v \in c.values :
                  CASE c.k \in {"$eq", "$ne", "$in", "$nin"} -> x = v
                    [] c.k = "$gt"  -> Rank[x] > Rank[v]
                    [] c.k = "$gte" -> Rank[x] >= Rank[v]
                    [] c.k = "$lt"  -> Rank[x] < Rank[v]
                    [] c.k = "$lte" -> Rank[x] <= Rank[v]
           f == CHOOSE f : f = [c \in MongoFilters |->
                  IF c.k \in {"$and", "$or"}
                  THEN Combined(IF c.k = "$and" THEN ";" ELSE ",",
                                {f[c.nodes[i]] : i \in DOMAIN c.nodes})
                  ELSE {d \in Records :
                          (\E x \in d[c.column] : Satisfies(x, c)) <=> c.k \notin {"$ne", "$nin"}}]
<1>1. \E g : g = [c \in MongoFilters |-> FindsStep(c, g)]
  <2>1. \E g : Computes(g, "Finds", MongoFilters, <<>>)
    BY NodesCompute
  <2> QED BY <2>1 DEF Computes, Step
<1>2. f = [c \in MongoFilters |-> FindsStep(c, f)]
  BY <1>1, Zenon DEF FindsStep, Found, Satisfied
<1>3. \A b : MongoFinds(b) = f[b]
  BY Zenon DEF MongoFinds
<1> HIDE DEF f
<1>4. Computes(f, "Finds", MongoFilters, <<>>)
  BY <1>2 DEF Computes, Step
<1> QED BY <1>3, <1>4

LEMMA FindsIs ==
    ASSUME NEW c \in MongoFilters
    PROVE  /\ c.k \notin DocumentKinds => MongoFinds(c) = Found(c)
           /\ c.k \in DocumentKinds =>
                 MongoFinds(c) = Combined(IF c.k = "$and" THEN ";" ELSE ",",
                                          {MongoFinds(c.nodes[i]) : i \in DOMAIN c.nodes})
<1>1. PICK f : Computes(f, "Finds", MongoFilters, <<>>) /\ \A b : MongoFinds(b) = f[b]
  BY FindsComputes
<1>2. f[c] = FindsStep(c, f)
  <2>1. f = [x \in MongoFilters |-> FindsStep(x, f)]
    BY <1>1 DEF Computes, Step
  <2> QED BY <2>1, Zenon
<1>3. {MongoFinds(c.nodes[i]) : i \in DOMAIN c.nodes} = {f[c.nodes[i]] : i \in DOMAIN c.nodes}
  BY <1>1
<1> QED BY <1>1, <1>2, <1>3, Zenon DEF FindsStep, DocumentKinds

LEMMA SoughtComputes ==
    \E f : Computes(f, "Sought", Nodes, <<>>) /\ \A b : Sought(b) = f[b]
<1> DEFINE f == CHOOSE f : f = [c \in Nodes |->
                  IF IsGroup(c) THEN Combined(c.k, {f[c.nodes[i]] : i \in DOMAIN c.nodes})
                  ELSE Asks(c)]
<1>1. \E g : g = [c \in Nodes |-> SoughtStep(c, g)]
  <2>1. \E g : Computes(g, "Sought", Nodes, <<>>)
    BY NodesCompute
  <2> QED BY <2>1 DEF Computes, Step
<1>2. f = [c \in Nodes |-> SoughtStep(c, f)]
  BY <1>1, Zenon DEF SoughtStep
<1>3. \A b : Sought(b) = f[b]
  BY Zenon DEF Sought
<1> HIDE DEF f
<1>4. Computes(f, "Sought", Nodes, <<>>)
  BY <1>2 DEF Computes, Step
<1> QED BY <1>3, <1>4

LEMMA SoughtIs ==
    ASSUME NEW c \in Nodes
    PROVE  /\ ~IsGroup(c) => Sought(c) = Asks(c)
           /\ IsGroup(c) => Sought(c) = Combined(c.k, {Sought(c.nodes[i]) : i \in DOMAIN c.nodes})
<1>1. PICK f : Computes(f, "Sought", Nodes, <<>>) /\ \A b : Sought(b) = f[b]
  BY SoughtComputes
<1>2. f[c] = SoughtStep(c, f)
  <2>1. f = [x \in Nodes |-> SoughtStep(x, f)]
    BY <1>1 DEF Computes, Step
  <2> QED BY <2>1, Zenon
<1>3. {Sought(c.nodes[i]) : i \in DOMAIN c.nodes} = {f[c.nodes[i]] : i \in DOMAIN c.nodes}
  BY <1>1
<1> QED BY <1>1, <1>2, <1>3, Zenon DEF SoughtStep

-----------------------------------------------------------------------------
(* The binder. *)

LEMMA SchemaIs ==
    ASSUME NEW s \in DOMAIN Schema
    PROVE  /\ Parsed[Schema[s].kind] \in [Spellings -> Spellings \cup {"invalid"}]
           /\ Schema[s].column \in Columns
BY SchemaAssumption DEF Columns

LEMMA ConditionIs ==
    \A c : c \in Conditions <=>
             \E sel \in Spellings, op \in Codes, args \in Seq(Spellings) :
                args # <<>> /\ c = Comparison(sel, op, args)
<1>1. ASSUME NEW c \in Conditions
      PROVE  \E sel \in Spellings, op \in Codes, args \in Seq(Spellings) :
                args # <<>> /\ c = Comparison(sel, op, args)
  <2>1. /\ c = [k |-> c.k, sel |-> c.sel, op |-> c.op, args |-> c.args] /\ c.k = "cmp"
        /\ c.sel \in Spellings /\ c.op \in Codes /\ c.args \in Seq(Spellings) /\ c.args # <<>>
    BY DEF Conditions, Codes
  <2>2. c = Comparison(c.sel, c.op, c.args)
    BY <2>1 DEF Comparison
  <2> QED BY <2>1, <2>2
<1>2. ASSUME NEW sel \in Spellings, NEW op \in Codes, NEW args \in Seq(Spellings), args # <<>>
      PROVE  Comparison(sel, op, args) \in Conditions
  BY <1>2 DEF Conditions, Codes, Comparison
<1> QED BY <1>1, <1>2

LEMMA ComparisonIs ==
    \A sel, op, args :
       /\ Comparison(sel, op, args).k = "cmp" /\ Comparison(sel, op, args).sel = sel
       /\ Comparison(sel, op, args).op = op /\ Comparison(sel, op, args).args = args
       /\ Comparison(sel, op, args) # Refused /\ ~IsGroup(Comparison(sel, op, args))
BY DEF Comparison, Refused, IsGroup, Separators

LEMMA BindIs ==
    ASSUME NEW c \in Conditions
    PROVE  BindComparison(c) \in BoundConditions \cup {Refused}
<1>1. PICK sel \in Spellings, op \in Codes, args \in Seq(Spellings) :
         args # <<>> /\ c = Comparison(sel, op, args)
  BY ConditionIs
<1>2. c.sel = sel /\ c.op = op /\ c.args = args
  BY <1>1, ComparisonIs
<1>3. SUFFICES ASSUME BindComparison(c) # Refused PROVE BindComparison(c) \in BoundConditions
  OBVIOUS
<1> DEFINE f == Schema[sel]
           values == [i \in DOMAIN args |-> Coerce(args[i], f)]
<1>4. /\ sel \in DOMAIN Schema
      /\ op \notin Memberships => Len(args) = 1
      /\ "invalid" \notin ToSet(values)
      /\ BindComparison(c) = Comparison(sel, op, values)
  BY <1>2, <1>3, Zenon DEF BindComparison
<1>5. \A i \in DOMAIN args : values[i] \in Spellings
  <2>1. SUFFICES ASSUME NEW i \in DOMAIN args PROVE values[i] \in Spellings
    OBVIOUS
  <2>2. args[i] \in Spellings
    OBVIOUS
  <2>3. Parsed[f.kind][args[i]] \in Spellings \cup {"invalid"}
    BY <1>4, <2>2, SchemaIs
  <2>4. values[i] \in Spellings \cup {"invalid"}
    BY <2>3 DEF Coerce
  <2>5. values[i] # "invalid"
    BY <1>4 DEF ToSet
  <2> QED BY <2>4, <2>5
<1> HIDE DEF values
<1>6. values \in Seq(Spellings) /\ Len(values) = Len(args) /\ values # <<>>
  <2>1. values = [i \in 1..Len(args) |-> values[i]]
    BY DEF values
  <2>2. Len(args) \in Nat /\ Len(args) # 0 /\ DOMAIN args = 1..Len(args)
    BY <1>1
  <2> QED BY <1>5, <2>1, <2>2
<1>7. Comparison(sel, op, values) \in Conditions
  BY <1>6, ConditionIs
<1>8. PICK b : b = Comparison(sel, op, values)
  OBVIOUS
<1>9. b.sel = sel /\ b.op = op /\ b.args = values
  BY <1>8, ComparisonIs
<1>10. op \notin Memberships => Len(values) = 1
  BY <1>4, <1>6
<1>11. b \in BoundConditions
  BY <1>4, <1>7, <1>8, <1>9, <1>10, Zenon DEF BoundConditions
<1> QED BY <1>4, <1>8, <1>11

LEMMA RowOf ==
    ASSUME NEW S, NEW len \in Nat, NEW f, f = [i \in 1..len |-> f[i]], \A i \in 1..len : f[i] \in S
    PROVE  f \in Seq(S) /\ Len(f) = len /\ (len # 0 => f # <<>>)
OBVIOUS

\* What the binder accepts is bound throughout, group by group.
LEMMA WalkBinds ==
    ASSUME NEW lim, NEW n \in Nat, n =< Levels
    PROVE  \A c \in NodesTo(n) : \A d \in Nat : Walk(c, d, lim) \in BoundTo(n) \cup {Refused}
<1> DEFINE Fine(m) == \A c \in NodesTo(m) : \A d \in Nat : Walk(c, d, lim) \in BoundTo(m) \cup {Refused}
           T == {m \in Nat : m =< Levels /\ ~Fine(m)}
<1> HIDE DEF Fine
<1>1. SUFFICES ASSUME T # {} PROVE FALSE
  BY DEF Fine
<1>2. PICK m \in T : \A j \in T : m =< j
  BY <1>1, Least
<1>3. m \in Nat /\ m =< Levels /\ ~Fine(m)
  BY <1>2
<1>4. PICK c \in NodesTo(m), d \in Nat : Walk(c, d, lim) \notin BoundTo(m) \cup {Refused}
  BY <1>3 DEF Fine
<1>5. c \in Nodes
  BY <1>3, NodeIs
<1>6. CASE ~IsGroup(c)
  <2>1. c \in Conditions /\ Walk(c, d, lim) = BindComparison(c)
    BY <1>3, <1>4, <1>5, <1>6, NodeIs, WalkIs
  <2>2. BindComparison(c) \in BoundConditions
    BY <1>4, <2>1, BindIs
  <2>3. BindComparison(c) \in BoundTo(m)
    BY <1>3, <2>2, LeafIsIn DEF BoundTo
  <2> QED BY <1>4, <2>1, <2>3
<1>7. CASE IsGroup(c)
  <2> DEFINE ns == [i \in DOMAIN c.nodes |-> Walk(c.nodes[i], d + 1, lim)]
  <2>1. PICK j \in Nat : j + 1 = m /\ c.nodes \in Seq(NodesTo(j)) /\ c.nodes # <<>>
                         /\ c.k \in Separators
    BY <1>3, <1>7, NodeIs
  <2>2. /\ \A i \in DOMAIN c.nodes : Walk(c.nodes[i], d + 1, lim) # Refused
        /\ Walk(c, d, lim) = Group(c.k, ns)
    BY <1>4, <1>5, <1>7, WalkIs, Zenon
  <2>3. Fine(j)
    <3>1. j =< Levels /\ ~(m =< j)
      BY <1>3, <2>1, KeyboardsAssumption
    <3> QED BY <1>2, <3>1
  <2>4. \A i \in DOMAIN c.nodes : ns[i] \in BoundTo(j)
    <3>1. SUFFICES ASSUME NEW i \in DOMAIN c.nodes PROVE ns[i] \in BoundTo(j)
      OBVIOUS
    <3>2. c.nodes[i] \in NodesTo(j) /\ d + 1 \in Nat
      BY <2>1
    <3>3. Walk(c.nodes[i], d + 1, lim) \in BoundTo(j) \cup {Refused}
      BY <2>3, <3>2 DEF Fine
    <3> QED BY <2>2, <3>3
  <2> HIDE DEF ns
  <2>5. ns \in Seq(BoundTo(j)) /\ ns # <<>>
    <3>1. PICK len \in Nat : len = Len(c.nodes) /\ len # 0 /\ DOMAIN c.nodes = 1..len
      BY <2>1
    <3>2. ns = [i \in 1..len |-> ns[i]]
      BY <3>1 DEF ns
    <3>3. \A i \in 1..len : ns[i] \in BoundTo(j)
      BY <2>4, <3>1
    <3>4. PICK S : S = BoundTo(j)
      OBVIOUS
    <3>5. PICK row : row = ns
      OBVIOUS
    <3>6. row = [i \in 1..len |-> row[i]]
      BY <3>2, <3>5, Zenon
    <3>7. \A i \in 1..len : row[i] \in S
      BY <3>3, <3>4, <3>5, Zenon
    <3>8. len # 0
      BY <3>1
    <3>9. row \in Seq(S) /\ row # <<>>
      BY ONLY len \in Nat, <3>6, <3>7, <3>8, RowOf, Zenon
    <3> QED BY <3>4, <3>5, <3>9, Zenon
  <2>6. Group(c.k, ns) \in TreesOf(BoundConditions, Separators, j + 1)
    BY <2>1, <2>5, GroupIsIn DEF BoundTo
  <2> QED BY <1>4, <2>1, <2>2, <2>6 DEF BoundTo
<1> QED BY <1>6, <1>7

-----------------------------------------------------------------------------
(* The MongoDB document. *)

LEMMA ClauseIs ==
    ASSUME NEW c \in BoundConditions
    PROVE  Clause(c) \in Clauses /\ Found(Clause(c)) = Asks(c)
<1>1. PICK sel \in Spellings, op \in Codes, args \in Seq(Spellings) :
         args # <<>> /\ c = Comparison(sel, op, args)
  BY ConditionIs DEF BoundConditions
<1>2. c.sel = sel /\ c.op = op /\ c.args = args
  BY <1>1, ComparisonIs
<1>3. sel \in DOMAIN Schema /\ (op \notin Memberships => Len(args) = 1)
  BY <1>2 DEF BoundConditions
<1>4. Schema[sel].column \in Columns
  BY <1>3, SchemaIs
<1>5. ToSet(args) \subseteq Spellings
  BY DEF ToSet
<1>6. op \notin Memberships => ToSet(args) = {args[1]}
  <2>1. SUFFICES ASSUME Len(args) = 1 PROVE ToSet(args) = {args[1]}
    BY <1>3
  <2>2. DOMAIN args = {1}
    BY <2>1
  <2> QED BY <2>2 DEF ToSet
<1> DEFINE vs == ToSet(args)
           col == Schema[sel].column
<1>7. Clause(c) = [k |-> MongoOperators[op], column |-> col, values |-> vs]
  BY <1>2, <1>6, Zenon DEF Clause
<1>8. Clause(c).k = MongoOperators[op] /\ Clause(c).column = col /\ Clause(c).values = vs
  BY <1>7
<1>9. \/ op = "==" /\ MongoOperators[op] = "$eq"
      \/ op = "!=" /\ MongoOperators[op] = "$ne"
      \/ op = "=gt=" /\ MongoOperators[op] = "$gt"
      \/ op = "=ge=" /\ MongoOperators[op] = "$gte"
      \/ op = "=lt=" /\ MongoOperators[op] = "$lt"
      \/ op = "=le=" /\ MongoOperators[op] = "$lte"
      \/ op = "=in=" /\ MongoOperators[op] = "$in"
      \/ op = "=out=" /\ MongoOperators[op] = "$nin"
  BY DEF MongoOperators, Codes, Equalities, Orderings, Memberships
<1>10. Clause(c) \in Clauses
  <2>1. MongoOperators[op] \in {"$eq", "$ne", "$gt", "$gte", "$lt", "$lte", "$in", "$nin"}
    BY <1>9
  <2> QED BY <1>4, <1>5, <1>7, <2>1 DEF Clauses
<1> DEFINE Right(d) == (\E x \in d[col] : Satisfied(x, Clause(c))) <=> Clause(c).k \notin {"$ne", "$nin"}
           Holds(d) ==
             CASE op \in {"==", "=in="} -> d[col] \cap vs # {}
               [] op \in {"!=", "=out="} -> d[col] \cap vs = {}
               [] op = "=gt=" -> \E x \in d[col], v \in vs : Rank[x] > Rank[v]
               [] op = "=ge=" -> \E x \in d[col], v \in vs : Rank[x] >= Rank[v]
               [] op = "=lt=" -> \E x \in d[col], v \in vs : Rank[x] < Rank[v]
               [] op = "=le=" -> \E x \in d[col], v \in vs : Rank[x] <= Rank[v]
<1>11. ASSUME NEW d \in Records PROVE Right(d) <=> Holds(d)
  <2> HIDE DEF vs, col
  <2>1. CASE op \in {"==", "=in="}
    <3>1. Clause(c).k \in {"$eq", "$in"}
      BY <1>8, <1>9, <2>1
    <3>2. \A x : Satisfied(x, Clause(c)) <=> x \in vs
      BY <1>8, <3>1 DEF Satisfied
    <3> QED BY <2>1, <3>1, <3>2
  <2>2. CASE op \in {"!=", "=out="}
    <3>1. Clause(c).k \in {"$ne", "$nin"}
      BY <1>8, <1>9, <2>2
    <3>2. \A x : Satisfied(x, Clause(c)) <=> x \in vs
      BY <1>8, <3>1 DEF Satisfied
    <3> QED BY <2>2, <3>1, <3>2
  <2>3. CASE op = "=gt="
    <3>1. Clause(c).k = "$gt"
      BY <1>8, <1>9, <2>3
    <3>2. \A x : Satisfied(x, Clause(c)) <=> \E v \in vs : Rank[x] > Rank[v]
      BY <1>8, <3>1 DEF Satisfied
    <3> QED BY <2>3, <3>1, <3>2
  <2>4. CASE op = "=ge="
    <3>1. Clause(c).k = "$gte"
      BY <1>8, <1>9, <2>4
    <3>2. \A x : Satisfied(x, Clause(c)) <=> \E v \in vs : Rank[x] >= Rank[v]
      BY <1>8, <3>1 DEF Satisfied
    <3> QED BY <2>4, <3>1, <3>2
  <2>5. CASE op = "=lt="
    <3>1. Clause(c).k = "$lt"
      BY <1>8, <1>9, <2>5
    <3>2. \A x : Satisfied(x, Clause(c)) <=> \E v \in vs : Rank[x] < Rank[v]
      BY <1>8, <3>1 DEF Satisfied
    <3> QED BY <2>5, <3>1, <3>2
  <2>6. CASE op = "=le="
    <3>1. Clause(c).k = "$lte"
      BY <1>8, <1>9, <2>6
    <3>2. \A x : Satisfied(x, Clause(c)) <=> \E v \in vs : Rank[x] <= Rank[v]
      BY <1>8, <3>1 DEF Satisfied
    <3> QED BY <2>6, <3>1, <3>2
  <2> QED BY <1>9, <2>1, <2>2, <2>3, <2>4, <2>5, <2>6
<1>12. Found(Clause(c)) = {d \in Records : Right(d)}
  BY <1>8, Zenon DEF Found
<1>13. Asks(c) = {d \in Records : Holds(d)}
  BY <1>2, Zenon DEF Asks
<1> HIDE DEF Right, Holds
<1>14. {d \in Records : Right(d)} = {d \in Records : Holds(d)}
  BY <1>11
<1> QED BY <1>10, <1>12, <1>13, <1>14

LEMMA BoundIsNode ==
    ASSUME NEW n \in Nat, n =< Levels, NEW c \in BoundTo(n)
    PROVE  /\ c \in Nodes
           /\ ~IsGroup(c) => c \in BoundConditions
           /\ IsGroup(c) => \E m \in Nat : /\ m + 1 = n /\ c.nodes \in Seq(BoundTo(m))
                                           /\ c.nodes # <<>> /\ c.k \in Separators
<1>1. BoundTo(n) \subseteq NodesTo(n)
  <2> DEFINE T == {m \in Nat : ~(BoundTo(m) \subseteq NodesTo(m))}
  <2>1. SUFFICES ASSUME T # {} PROVE FALSE
    OBVIOUS
  <2>2. PICK m \in T : \A j \in T : m =< j
    BY <2>1, Least
  <2>3. PICK x \in BoundTo(m) : x \notin NodesTo(m) /\ m \in Nat
    BY <2>2
  <2>4. x \notin BoundConditions
    BY <2>3, LeafIsIn DEF BoundConditions, NodesTo
  <2>5. PICK j \in Nat, k \in Separators : \E nodes \in Seq(BoundTo(j)) :
           j + 1 = m /\ x = Group(k, nodes) /\ nodes # <<>>
    <3>1. x \in TreesOf(BoundConditions, Separators, m) /\ m \in Nat
      BY <2>3 DEF BoundTo
    <3>2. x \in BoundConditions \/ IsAbove(x, BoundConditions, Separators, m)
      BY <3>1, TreeOfIs
    <3> QED BY <2>4, <3>2, Zenon DEF BoundTo, IsAbove
  <2>6. PICK nodes \in Seq(BoundTo(j)) : j + 1 = m /\ x = Group(k, nodes) /\ nodes # <<>>
    BY <2>5
  <2>7. BoundTo(j) \subseteq NodesTo(j)
    BY <2>2, <2>6
  <2>8. nodes \in Seq(NodesTo(j))
    BY <2>6, <2>7, SeqMonotonic
  <2>9. Group(k, nodes) \in NodesTo(j + 1)
    BY <2>6, <2>8, GroupIsIn DEF NodesTo
  <2> QED BY <2>3, <2>6, <2>9
<1>2. c \in Nodes
  BY <1>1, NodeIs
<1>3. ASSUME ~IsGroup(c) PROVE c \in BoundConditions
  <2>1. c \in BoundConditions \/ IsAbove(c, BoundConditions, Separators, n)
    BY TreeOfIs DEF BoundTo
  <2> QED BY <1>3, <2>1, AboveIsGroup
<1>4. ASSUME IsGroup(c)
      PROVE  \E m \in Nat : /\ m + 1 = n /\ c.nodes \in Seq(BoundTo(m))
                            /\ c.nodes # <<>> /\ c.k \in Separators
  <2>1. c.k \in Kinds
    BY <1>4 DEF IsGroup, Kinds
  <2>2. c \in TreesOf(BoundConditions, Separators, n) /\ NoGroups(BoundConditions)
    BY ConditionsPlain DEF BoundTo
  <2>3. PICK m \in Nat : /\ m + 1 = n /\ c.nodes \in Seq(TreesOf(BoundConditions, Separators, m))
                         /\ c.nodes # <<>> /\ c.k \in Separators
    BY <2>1, <2>2, OperandsSmaller
  <2> QED BY <2>3, Zenon DEF BoundTo
<1> QED BY <1>2, <1>3, <1>4

\* The document of a bound filter finds what the filter asks for.
LEMMA DocumentIs ==
    ASSUME NEW n \in Nat, n =< Levels
    PROVE  \A c \in BoundTo(n) :
              ToFilter(c) \in DocumentsTo(n) /\ MongoFinds(ToFilter(c)) = Sought(c)
<1> DEFINE Fine(m) == \A c \in BoundTo(m) :
                         ToFilter(c) \in DocumentsTo(m) /\ MongoFinds(ToFilter(c)) = Sought(c)
           T == {m \in Nat : m =< Levels /\ ~Fine(m)}
<1> HIDE DEF Fine
<1>1. SUFFICES ASSUME T # {} PROVE FALSE
  BY DEF Fine
<1>2. PICK m \in T : \A j \in T : m =< j
  BY <1>1, Least
<1>3. m \in Nat /\ m =< Levels /\ ~Fine(m)
  BY <1>2
<1>4. PICK c \in BoundTo(m) : ~(ToFilter(c) \in DocumentsTo(m) /\ MongoFinds(ToFilter(c)) = Sought(c))
  BY <1>3 DEF Fine
<1>5. c \in Nodes
  BY <1>3, BoundIsNode
<1>6. DocumentsTo(m) \subseteq MongoFilters
  BY <1>3, KeyboardsAssumption, TreesOfGrow DEF DocumentsTo, MongoFilters, DocumentKinds
<1>7. CASE ~IsGroup(c)
  <2>1. c \in BoundConditions /\ ToFilter(c) = Clause(c) /\ Sought(c) = Asks(c)
    BY <1>3, <1>5, <1>7, BoundIsNode, ToFilterIs, SoughtIs
  <2>2. Clause(c) \in Clauses /\ Found(Clause(c)) = Asks(c)
    BY <2>1, ClauseIs
  <2>3. Clause(c) \in DocumentsTo(m)
    BY <1>3, <2>2, LeafIsIn DEF DocumentsTo
  <2>4. Clause(c).k \notin DocumentKinds
    BY <2>2, ConditionsPlain DEF NoGroups, Kinds, DocumentKinds
  <2>5. MongoFinds(Clause(c)) = Found(Clause(c))
    BY <1>6, <2>3, <2>4, FindsIs
  <2> QED BY <1>4, <2>1, <2>2, <2>3, <2>5
<1>8. CASE IsGroup(c)
  <2> DEFINE ms == [i \in DOMAIN c.nodes |-> ToFilter(c.nodes[i])]
             kind == IF c.k = ";" THEN "$and" ELSE "$or"
  <2>1. PICK j \in Nat : j + 1 = m /\ c.nodes \in Seq(BoundTo(j)) /\ c.nodes # <<>>
                         /\ c.k \in Separators
    BY <1>3, <1>8, BoundIsNode
  <2>2. ToFilter(c) = Group(kind, ms) /\ Sought(c) = Combined(c.k, {Sought(c.nodes[i]) : i \in DOMAIN c.nodes})
    BY <1>5, <1>8, ToFilterIs, SoughtIs, Zenon
  <2>3. Fine(j)
    <3>1. j =< Levels /\ ~(m =< j)
      BY <1>3, <2>1, KeyboardsAssumption
    <3> QED BY <1>2, <3>1
  <2>4. \A i \in DOMAIN c.nodes : ms[i] \in DocumentsTo(j) /\ MongoFinds(ms[i]) = Sought(c.nodes[i])
    <3>1. SUFFICES ASSUME NEW i \in DOMAIN c.nodes
                   PROVE  ms[i] \in DocumentsTo(j) /\ MongoFinds(ms[i]) = Sought(c.nodes[i])
      OBVIOUS
    <3>2. c.nodes[i] \in BoundTo(j)
      BY <2>1
    <3> QED BY <2>3, <3>2 DEF Fine
  <2>5. DOMAIN ms = DOMAIN c.nodes
    OBVIOUS
  <2> HIDE DEF ms
  <2>6. ms \in Seq(DocumentsTo(j)) /\ ms # <<>>
    <3>1. PICK len \in Nat : len = Len(c.nodes) /\ len # 0 /\ DOMAIN c.nodes = 1..len
      BY <2>1
    <3>2. ms = [i \in 1..len |-> ms[i]]
      BY <3>1 DEF ms
    <3>3. \A i \in 1..len : ms[i] \in DocumentsTo(j)
      BY <2>4, <3>1
    <3>4. PICK S : S = DocumentsTo(j)
      OBVIOUS
    <3>5. PICK row : row = ms
      OBVIOUS
    <3>6. row = [i \in 1..len |-> row[i]]
      BY <3>2, <3>5, Zenon
    <3>7. \A i \in 1..len : row[i] \in S
      BY <3>3, <3>4, <3>5, Zenon
    <3>8. len # 0
      BY <3>1
    <3>9. row \in Seq(S) /\ row # <<>>
      BY ONLY len \in Nat, <3>6, <3>7, <3>8, RowOf, Zenon
    <3> QED BY <3>4, <3>5, <3>9, Zenon
  <2>7. kind \in DocumentKinds /\ (IF kind = "$and" THEN ";" ELSE ",") = c.k
    BY <2>1 DEF DocumentKinds, Separators
  <2> HIDE DEF kind
  <2>8. Group(kind, ms) \in DocumentsTo(m)
    <3>1. Group(kind, ms) \in TreesOf(Clauses, DocumentKinds, j + 1)
      BY <2>6, <2>7, GroupIsIn DEF DocumentsTo
    <3> QED BY <2>1, <3>1 DEF DocumentsTo
  <2>9. Group(kind, ms).k = kind /\ Group(kind, ms).nodes = ms
    BY DEF Group
  <2>10. MongoFinds(Group(kind, ms)) = Combined(c.k, {MongoFinds(ms[i]) : i \in DOMAIN ms})
    <3>1. PICK g \in MongoFilters : g = Group(kind, ms)
      BY <1>6, <2>8
    <3>2. g.k = kind /\ g.nodes = ms
      BY <2>9, <3>1
    <3>3. MongoFinds(g) = Combined(IF g.k = "$and" THEN ";" ELSE ",",
                                   {MongoFinds(g.nodes[i]) : i \in DOMAIN g.nodes})
      BY <2>7, <3>2, FindsIs
    <3> QED BY <2>7, <3>1, <3>2, <3>3, Zenon
  <2>11. {MongoFinds(ms[i]) : i \in DOMAIN ms} = {Sought(c.nodes[i]) : i \in DOMAIN c.nodes}
    BY <2>4, <2>5
  <2> QED BY <1>4, <2>2, <2>8, <2>10, <2>11, Zenon
<1> QED BY <1>7, <1>8

-----------------------------------------------------------------------------
(***************************************************************************)
(* The parser.  What is read from a place depends on what is read behind   *)
(* it, an "or" also on the "and" at the same place, so that reading is     *)
(* well founded.  A node of n levels stands for 4n + 3 tokens or more.     *)
(***************************************************************************)

Wanted == {"args", ",", ";"}

Distance(s, i) == 2 * (Len(s) + 1 - i)

Weight(s, what, i) == IF what = "," THEN Distance(s, i) + 1 ELSE Distance(s, i)

\* The nodes that w tokens may stand for.
Fitting(w) == {t \in NodesTo(w) : \A k \in Nat : w =< 4 * k + 6 => t \in NodesTo(k)}

NodeRead(s, i, r) == r.ok => r.at \in (i + 3)..(Len(s) + 1) /\ r.node \in Fitting(r.at - i)

ArgumentsRead(s, i, r) ==
    r.ok => r.at \in (i + 1)..(Len(s) + 1) /\ r.node \in Seq(Spellings) /\ r.node # <<>>

OperandsRead(s, i, r) ==
    r.ok => /\ r.at \in (i + 3)..(Len(s) + 1)
            /\ \/ Len(r.node) = 1 /\ r.node \in Seq(Fitting(r.at - i))
               \/ Len(r.node) >= 2 /\ r.at >= i + 7 /\ r.node \in Seq(Fitting(r.at - i - 4))

Proper(s, what, i, r) ==
    IF what = "args" THEN ArgumentsRead(s, i, r) ELSE OperandsRead(s, i, r)

\* Below the weight w, f and g read the same, and f reads what it should.
Agree(s, f, g, w) ==
    \A what \in Wanted, i \in 1..(Len(s) + 1) :
       Weight(s, what, i) < w =>
          f[<<what, i>>] = g[<<what, i>>] /\ Proper(s, what, i, f[<<what, i>>])

LEMMA FittingGrows ==
    ASSUME NEW v \in Nat, NEW w \in Nat, v =< w
    PROVE  Fitting(v) \subseteq Fitting(w)
<1>1. SUFFICES ASSUME NEW t \in Fitting(v) PROVE t \in Fitting(w)
  OBVIOUS
<1>2. \A k \in Nat : w =< 4 * k + 6 => t \in NodesTo(k)
  <2>1. \A k \in Nat : w =< 4 * k + 6 => v =< 4 * k + 6
    OBVIOUS
  <2> QED BY <2>1 DEF Fitting
<1>3. t \in NodesTo(w)
  BY <1>2
<1> QED BY <1>2, <1>3 DEF Fitting

LEMMA TwoAreMany ==
    ASSUME NEW S, NEW t \in Seq(S), Len(t) >= 2
    PROVE  t # <<>> /\ Len(t) # 1
<1>1. \A n \in Nat : n >= 2 => n # 0 /\ n # 1
  OBVIOUS
<1>2. Len(t) \in Nat
  OBVIOUS
<1>3. Len(t) # 0 /\ Len(t) # 1
  BY <1>1, <1>2, Zenon
<1>4. t = <<>> => Len(t) = 0
  OBVIOUS
<1> QED BY <1>3, <1>4, Zenon

LEMMA ConditionFits ==
    ASSUME NEW c \in Conditions, NEW w \in Nat
    PROVE  c \in Fitting(w)
BY LeafIsIn DEF Fitting, NodesTo

LEMMA GroupFits ==
    ASSUME NEW w \in Nat, w >= 7, NEW k \in Separators, NEW nodes \in Seq(Fitting(w - 4)),
           nodes # <<>>
    PROVE  Group(k, nodes) \in Fitting(w)
<1>1. ASSUME NEW n \in Nat, w =< 4 * n + 6 PROVE Group(k, nodes) \in NodesTo(n)
  <2>1. PICK m \in Nat : m + 1 = n
    <3>1. n - 1 \in Nat /\ (n - 1) + 1 = n
      BY <1>1
    <3> QED BY <3>1
  <2>2. w - 4 =< 4 * m + 6
    BY <1>1, <2>1
  <2>3. Fitting(w - 4) \subseteq NodesTo(m)
    BY <2>2 DEF Fitting
  <2>4. nodes \in Seq(NodesTo(m))
    BY <2>3, SeqMonotonic
  <2>5. Group(k, nodes) \in TreesOf(Conditions, Separators, m + 1)
    BY <2>4, GroupIsIn DEF NodesTo
  <2> QED BY <2>1, <2>5 DEF NodesTo
<1>2. Group(k, nodes) \in NodesTo(w)
  BY <1>1
<1> QED BY <1>1, <1>2 DEF Fitting

LEMMA TokenIs ==
    ASSUME NEW s, NEW i
    PROVE  /\ At(s, i) # "EOF" => i =< Len(s) /\ At(s, i) = s[i]
           /\ IsValue(At(s, i)) => i =< Len(s) /\ At(s, i) = s[i] /\ s[i] \in Spellings
<1>1. "EOF" \notin Spellings
  BY SchemaAssumption
<1> QED BY <1>1 DEF At, IsValue

LEMMA AnswerIs ==
    /\ \A i, n : Got(i, n).ok = TRUE /\ Got(i, n).at = i /\ Got(i, n).node = n
    /\ \A i : Unexpected(i).ok = FALSE
BY DEF Got, Unexpected

LEMMA ArgumentsGot ==
    \A s, i, j, vs :
       j \in (i + 1)..(Len(s) + 1) /\ vs \in Seq(Spellings) /\ vs # <<>> =>
          ArgumentsRead(s, i, Got(j, vs))
BY AnswerIs, Zenon DEF ArgumentsRead

LEMMA AgreeBehind ==
    ASSUME NEW s, Len(s) \in Nat, NEW i \in 1..(Len(s) + 1), NEW j \in 1..(Len(s) + 1), i < j,
           NEW f, NEW g, Agree(s, f, g, Distance(s, i)), NEW what \in Wanted
    PROVE  f[<<what, j>>] = g[<<what, j>>] /\ Proper(s, what, j, f[<<what, j>>])
<1>1. Distance(s, j) < Distance(s, i) /\ Distance(s, j) + 1 < Distance(s, i)
  BY DEF Distance
<1>2. Weight(s, what, j) < Distance(s, i)
  BY <1>1 DEF Weight
<1> QED BY <1>2 DEF Agree

LEMMA AgreeLess ==
    ASSUME NEW s, Len(s) \in Nat, NEW i \in 1..(Len(s) + 1), NEW j \in 1..(Len(s) + 1), i < j,
           NEW f, NEW g, Agree(s, f, g, Distance(s, i))
    PROVE  Agree(s, f, g, Distance(s, j))
<1>1. SUFFICES ASSUME NEW what \in Wanted, NEW k \in 1..(Len(s) + 1),
                      Weight(s, what, k) < Distance(s, j)
               PROVE  f[<<what, k>>] = g[<<what, k>>] /\ Proper(s, what, k, f[<<what, k>>])
  BY DEF Agree
<1>2. Distance(s, k) < Distance(s, j)
  <2>1. Distance(s, k) =< Weight(s, what, k) /\ Weight(s, what, k) \in Int
    <3>1. Distance(s, k) \in Int /\ Distance(s, k) + 1 \in Int /\ Distance(s, k) =< Distance(s, k) + 1
          /\ Distance(s, k) =< Distance(s, k)
      BY DEF Distance
    <3> QED BY <3>1, Zenon DEF Weight
  <2>2. Distance(s, j) \in Int /\ Distance(s, k) \in Int
    BY DEF Distance
  <2> QED BY <1>1, <2>1, <2>2
<1>3. i < k
  BY <1>2 DEF Distance
<1> QED BY <1>3, AgreeBehind

LEMMA ArgumentsProper ==
    ASSUME NEW s, Len(s) \in Nat, NEW i \in 1..(Len(s) + 1), NEW f, NEW g,
           Agree(s, f, g, Distance(s, i))
    PROVE  /\ MoreArguments(s, f, i) = MoreArguments(s, g, i)
           /\ ArgumentsRead(s, i, MoreArguments(s, f, i))
<1>1. CASE ~IsValue(At(s, i))
  BY <1>1, AnswerIs DEF MoreArguments, ArgumentsRead
<1>2. CASE IsValue(At(s, i)) /\ At(s, i + 1) = ","
  <2>1. i + 1 =< Len(s) /\ s[i] \in Spellings
    BY <1>2, TokenIs, Zenon
  <2>2. i + 2 \in 1..(Len(s) + 1) /\ i < i + 2
    BY <2>1
  <2> DEFINE rest == f[<<"args", i + 2>>]
  <2>3. rest = g[<<"args", i + 2>>] /\ ArgumentsRead(s, i + 2, rest)
    <3>1. \A what \in Wanted : /\ f[<<what, i + 2>>] = g[<<what, i + 2>>]
                               /\ Proper(s, what, i + 2, f[<<what, i + 2>>])
      BY <2>2, AgreeBehind
    <3> QED BY <3>1, Zenon DEF Proper, Wanted
  <2>4. MoreArguments(s, f, i) = FollowedBy(s[i], rest)
    BY <1>2, TokenIs, Zenon DEF MoreArguments
  <2>5. MoreArguments(s, g, i) = FollowedBy(s[i], rest)
    BY <1>2, <2>3, Zenon DEF MoreArguments
  <2> HIDE DEF rest
  <2>6. ASSUME rest.ok
        PROVE  ArgumentsRead(s, i, FollowedBy(s[i], rest))
    <3>1. FollowedBy(s[i], rest) = Got(rest.at, <<s[i]>> \o rest.node)
      BY <2>6 DEF FollowedBy
    <3>2. rest.at \in ((i + 2) + 1)..(Len(s) + 1) /\ rest.node \in Seq(Spellings)
      BY <2>3, <2>6 DEF ArgumentsRead
    <3>3. rest.at \in (i + 1)..(Len(s) + 1)
      BY <2>1, <3>2
    <3>4. <<s[i]>> \o rest.node \in Seq(Spellings) /\ <<s[i]>> \o rest.node # <<>>
      BY <2>1, <3>2
    <3> QED BY <3>1, <3>3, <3>4, ArgumentsGot, Zenon
  <2>7. ASSUME ~rest.ok PROVE ArgumentsRead(s, i, FollowedBy(s[i], rest))
    BY <2>7 DEF FollowedBy, ArgumentsRead
  <2> QED BY <2>4, <2>5, <2>6, <2>7
<1>3. CASE IsValue(At(s, i)) /\ At(s, i + 1) = ")"
  <2>1. i + 1 =< Len(s) /\ s[i] \in Spellings
    BY <1>3, TokenIs, Zenon
  <2>2. MoreArguments(s, f, i) = Got(i + 2, <<s[i]>>) /\ MoreArguments(s, g, i) = Got(i + 2, <<s[i]>>)
    BY <1>3, Zenon DEF MoreArguments
  <2>3. i + 2 \in (i + 1)..(Len(s) + 1)
    BY <2>1
  <2>4. <<s[i]>> \in Seq(Spellings) /\ <<s[i]>> # <<>>
    BY <2>1
  <2> QED BY <2>2, <2>3, <2>4, ArgumentsGot, Zenon
<1>4. CASE IsValue(At(s, i)) /\ At(s, i + 1) \notin {",", ")"}
  BY <1>4, AnswerIs DEF MoreArguments, ArgumentsRead
<1> QED BY <1>1, <1>2, <1>3, <1>4

LEMMA OperatorIs == \A o \in OperatorTokens : Operators[o] \in Codes
BY DEF OperatorTokens, Operators, Codes, Equalities, Orderings, Memberships

\* What is read from i on, the operator before it.
LEMMA ValuesProper ==
    ASSUME NEW s, Len(s) \in Nat, NEW i \in 1..Len(s), NEW f, NEW g,
           Agree(s, f, g, Distance(s, i))
    PROVE  LET a == Arguments(s, f, i + 1)
           IN  /\ a = Arguments(s, g, i + 1)
               /\ a.ok => /\ a.at \in (i + 2)..(Len(s) + 1)
                          /\ a.node \in Seq(Spellings) /\ a.node # <<>>
<1> DEFINE a == Arguments(s, f, i + 1)
<1>1. CASE At(s, i + 1) = "("
  <2>1. i + 1 =< Len(s)
    BY <1>1, TokenIs, Zenon
  <2>2. i + 2 \in 1..(Len(s) + 1) /\ i < i + 2 /\ (i + 1) + 1 = i + 2 /\ i \in 1..(Len(s) + 1)
    BY <2>1
  <2> DEFINE rest == f[<<"args", i + 2>>]
  <2>3. rest = g[<<"args", i + 2>>] /\ ArgumentsRead(s, i + 2, rest)
    <3>1. \A what \in Wanted : /\ f[<<what, i + 2>>] = g[<<what, i + 2>>]
                               /\ Proper(s, what, i + 2, f[<<what, i + 2>>])
      BY <2>2, AgreeBehind
    <3> QED BY <3>1, Zenon DEF Proper, Wanted
  <2>4. a = rest /\ Arguments(s, g, i + 1) = rest
    BY <1>1, <2>2, <2>3, Zenon DEF Arguments
  <2> HIDE DEF rest, a
  <2>5. ASSUME rest.ok
        PROVE  rest.at \in (i + 2)..(Len(s) + 1) /\ rest.node \in Seq(Spellings) /\ rest.node # <<>>
    <3>1. /\ rest.at \in ((i + 2) + 1)..(Len(s) + 1)
          /\ rest.node \in Seq(Spellings) /\ rest.node # <<>>
      BY <2>3, <2>5 DEF ArgumentsRead
    <3>2. rest.at \in (i + 2)..(Len(s) + 1)
      BY <3>1
    <3> QED BY <3>1, <3>2
  <2> QED BY <2>4, <2>5, Zenon DEF a
<1>2. CASE At(s, i + 1) # "(" /\ IsValue(At(s, i + 1))
  <2>1. i + 1 =< Len(s) /\ s[i + 1] \in Spellings
    BY <1>2, TokenIs, Zenon
  <2> DEFINE r == Got((i + 1) + 1, <<s[i + 1]>>)
  <2>2. a = r /\ Arguments(s, g, i + 1) = r
    BY <1>2, Zenon DEF Arguments
  <2>3. (i + 1) + 1 \in (i + 2)..(Len(s) + 1)
    BY <2>1
  <2>4. <<s[i + 1]>> \in Seq(Spellings) /\ <<s[i + 1]>> # <<>>
    BY <2>1
  <2>5. r.at = (i + 1) + 1 /\ r.node = <<s[i + 1]>>
    BY AnswerIs
  <2> HIDE DEF r, a
  <2> QED BY <2>2, <2>3, <2>4, <2>5, Zenon DEF a
<1>3. CASE At(s, i + 1) # "(" /\ ~IsValue(At(s, i + 1))
  <2>1. a = Unexpected(i + 1) /\ Arguments(s, g, i + 1) = Unexpected(i + 1)
    BY <1>3, Zenon DEF Arguments
  <2> QED BY <2>1, AnswerIs, Zenon
<1> QED BY <1>1, <1>2, <1>3

LEMMA ComparisonProper ==
    ASSUME NEW s, Len(s) \in Nat, NEW i \in 1..(Len(s) + 1), NEW f, NEW g,
           Agree(s, f, g, Distance(s, i))
    PROVE  /\ ParseComparison(s, f, i) = ParseComparison(s, g, i)
           /\ NodeRead(s, i, ParseComparison(s, f, i))
<1>1. CASE ~(IsValue(At(s, i)) /\ At(s, i + 1) \in OperatorTokens)
  BY <1>1, AnswerIs DEF ParseComparison, NodeRead
<1>2. CASE IsValue(At(s, i)) /\ At(s, i + 1) \in OperatorTokens
  <2>1. "EOF" \notin OperatorTokens
    BY DEF OperatorTokens
  <2>2. i + 1 =< Len(s) /\ s[i] \in Spellings /\ s[i + 1] \in OperatorTokens
    BY <1>2, <2>1, TokenIs, Zenon
  <2> DEFINE a == Arguments(s, f, i + 2)
             c == Comparison(s[i], Operators[s[i + 1]], a.node)
  <2>3. /\ a = Arguments(s, g, i + 2)
        /\ a.ok => /\ a.at \in (i + 3)..(Len(s) + 1)
                   /\ a.node \in Seq(Spellings) /\ a.node # <<>>
    <3>1. i + 1 \in 1..(Len(s) + 1) /\ i + 1 \in 1..Len(s) /\ i < i + 1
          /\ (i + 1) + 1 = i + 2 /\ (i + 1) + 2 = i + 3
      BY <2>2
    <3>2. Agree(s, f, g, Distance(s, i + 1))
      BY <3>1, AgreeLess
    <3> QED BY <3>1, <3>2, ValuesProper
  <2>4. /\ ParseComparison(s, f, i) = IF a.ok THEN Got(a.at, c) ELSE a
        /\ ParseComparison(s, g, i) = IF a.ok THEN Got(a.at, c) ELSE a
    BY <1>2, <2>3, Zenon DEF ParseComparison
  <2>5. ASSUME a.ok PROVE NodeRead(s, i, Got(a.at, c))
    <3> HIDE DEF a
    <3>1. c \in Conditions
      BY <2>2, <2>3, <2>5, OperatorIs, ConditionIs, Zenon
    <3>2. a.at - i \in Nat
      BY <2>3, <2>5
    <3> HIDE DEF c
    <3>3. c \in Fitting(a.at - i)
      BY <3>1, <3>2, ConditionFits
    <3> QED BY <2>3, <2>5, <3>3, AnswerIs DEF NodeRead
  <2>6. ASSUME ~a.ok PROVE NodeRead(s, i, a)
    BY <2>6 DEF NodeRead
  <2> HIDE DEF a, c
  <2> QED BY <2>4, <2>5, <2>6
<1> QED BY <1>1, <1>2

LEMMA BinaryProper ==
    ASSUME NEW s, Len(s) \in Nat, NEW sep \in Separators, NEW i \in 1..(Len(s) + 1), NEW f, NEW g,
           f[<<sep, i>>] = g[<<sep, i>>], OperandsRead(s, i, f[<<sep, i>>])
    PROVE  ParseBinary(f, sep, i) = ParseBinary(g, sep, i) /\ NodeRead(s, i, ParseBinary(f, sep, i))
<1> DEFINE r == f[<<sep, i>>]
<1>1. ParseBinary(f, sep, i) = ParseBinary(g, sep, i)
  BY Zenon DEF ParseBinary
<1>2. ParseBinary(f, sep, i)
        = IF ~r.ok THEN r ELSE Got(r.at, IF Len(r.node) = 1 THEN r.node[1] ELSE Group(sep, r.node))
  BY Zenon DEF ParseBinary
<1> HIDE DEF r
<1>3. OperandsRead(s, i, r)
  BY DEF r
<1>4. CASE ~r.ok
  BY <1>1, <1>2, <1>4 DEF NodeRead
<1>5. CASE r.ok
  <2> DEFINE n == IF Len(r.node) = 1 THEN r.node[1] ELSE Group(sep, r.node)
  <2>1. r.at \in (i + 3)..(Len(s) + 1) /\ Len(s) \in Nat /\ i \in Nat
    BY <1>3, <1>5 DEF OperandsRead
  <2>2. PICK w \in Nat : w = r.at - i
    BY <2>1
  <2>3. n \in Fitting(w)
    <3>1. CASE Len(r.node) = 1 /\ r.node \in Seq(Fitting(r.at - i))
      <4>1. 1 \in 1..Len(r.node)
        BY <3>1
      <4>2. r.node[1] \in Fitting(r.at - i)
        BY <3>1, <4>1, ElementOfSeq
      <4> QED BY <2>2, <3>1, <4>2
    <3>2. CASE Len(r.node) >= 2 /\ r.at >= i + 7 /\ r.node \in Seq(Fitting(r.at - i - 4))
      <4>1. r.node # <<>> /\ Len(r.node) # 1
        BY <3>2, TwoAreMany, Zenon
      <4>2. w >= 7 /\ r.at - i - 4 = w - 4
        BY <2>1, <2>2, <3>2
      <4>3. Group(sep, r.node) \in Fitting(w)
        BY <3>2, <4>1, <4>2, GroupFits
      <4> QED BY <4>1, <4>3
    <3> QED BY <1>3, <1>5, <3>1, <3>2 DEF OperandsRead
  <2>4. ParseBinary(f, sep, i) = Got(r.at, n)
    BY <1>2, <1>5
  <2> HIDE DEF n
  <2> QED BY <1>1, <2>1, <2>2, <2>3, <2>4, AnswerIs DEF NodeRead
<1> QED BY <1>4, <1>5

LEMMA ConstraintProper ==
    ASSUME NEW s, Len(s) \in Nat, NEW i \in 1..(Len(s) + 1), NEW f, NEW g,
           Agree(s, f, g, Distance(s, i))
    PROVE  /\ ParseConstraint(s, f, i) = ParseConstraint(s, g, i)
           /\ NodeRead(s, i, ParseConstraint(s, f, i))
<1>1. CASE At(s, i) # "("
  BY <1>1, ComparisonProper DEF ParseConstraint
<1>2. CASE At(s, i) = "("
  <2>1. i =< Len(s)
    BY <1>2, TokenIs, Zenon
  <2>2. i + 1 \in 1..(Len(s) + 1) /\ i < i + 1
    BY <2>1
  <2>3. f[<<",", i + 1>>] = g[<<",", i + 1>>] /\ OperandsRead(s, i + 1, f[<<",", i + 1>>])
    <3>1. \A what \in Wanted : /\ f[<<what, i + 1>>] = g[<<what, i + 1>>]
                               /\ Proper(s, what, i + 1, f[<<what, i + 1>>])
      BY <2>2, AgreeBehind
    <3> QED BY <3>1, Zenon DEF Proper, Wanted
  <2> DEFINE r == ParseBinary(f, ",", i + 1)
             whole == IF ~r.ok THEN r
                      ELSE IF At(s, r.at) = ")" THEN Got(r.at + 1, r.node)
                      ELSE Unexpected(r.at)
  <2>4. r = ParseBinary(g, ",", i + 1) /\ NodeRead(s, i + 1, r)
    <3>1. \A sep \in Separators :
             f[<<sep, i + 1>>] = g[<<sep, i + 1>>] /\ OperandsRead(s, i + 1, f[<<sep, i + 1>>]) =>
                ParseBinary(f, sep, i + 1) = ParseBinary(g, sep, i + 1)
                  /\ NodeRead(s, i + 1, ParseBinary(f, sep, i + 1))
      BY <2>2, BinaryProper
    <3> QED BY <2>3, <3>1, Zenon DEF Separators
  <2>5. ParseConstraint(s, f, i) = whole /\ ParseConstraint(s, g, i) = whole
    BY <1>2, <2>4, Zenon DEF ParseConstraint
  <2> HIDE DEF r
  <2>6. ASSUME r.ok, At(s, r.at) = ")"
        PROVE  NodeRead(s, i, Got(r.at + 1, r.node))
    <3>1. r.at \in ((i + 1) + 3)..(Len(s) + 1) /\ r.node \in Fitting(r.at - (i + 1))
      BY <2>4, <2>6 DEF NodeRead
    <3>2. r.at =< Len(s)
      BY <2>6, TokenIs, Zenon
    <3>3. r.at + 1 \in (i + 3)..(Len(s) + 1)
      BY <3>1, <3>2
    <3>4. r.at - (i + 1) \in Nat /\ (r.at + 1) - i \in Nat /\ r.at - (i + 1) =< (r.at + 1) - i
      BY <3>1
    <3>5. r.node \in Fitting((r.at + 1) - i)
      BY <3>1, <3>4, FittingGrows
    <3> QED BY <3>3, <3>5, AnswerIs DEF NodeRead
  <2>7. ASSUME ~r.ok PROVE NodeRead(s, i, r)
    BY <2>7 DEF NodeRead
  <2>8. NodeRead(s, i, Unexpected(r.at))
    BY AnswerIs DEF NodeRead
  <2>9. NodeRead(s, i, whole)
    BY <2>6, <2>7, <2>8, Zenon
  <2> HIDE DEF whole
  <2> QED BY <2>5, <2>9
<1> QED BY <1>1, <1>2

LEMMA OperandProper ==
    ASSUME NEW s, Len(s) \in Nat, NEW sep \in Separators, NEW i \in 1..(Len(s) + 1),
           NEW f, NEW g, Agree(s, f, g, Weight(s, sep, i))
    PROVE  Operand(s, f, sep, i) = Operand(s, g, sep, i) /\ NodeRead(s, i, Operand(s, f, sep, i))
<1>1. CASE sep = ","
  <2>1. Distance(s, i) < Distance(s, i) + 1
    BY DEF Distance
  <2>2. Weight(s, ";", i) < Weight(s, sep, i) /\ ";" \in Wanted
    BY <1>1, <2>1, Zenon DEF Weight, Wanted
  <2>3. f[<<";", i>>] = g[<<";", i>>] /\ OperandsRead(s, i, f[<<";", i>>])
    BY <2>2, Zenon DEF Agree, Proper
  <2>4. \A t \in Separators :
           f[<<t, i>>] = g[<<t, i>>] /\ OperandsRead(s, i, f[<<t, i>>]) =>
              ParseBinary(f, t, i) = ParseBinary(g, t, i) /\ NodeRead(s, i, ParseBinary(f, t, i))
    BY BinaryProper
  <2>5. /\ ParseBinary(f, ";", i) = ParseBinary(g, ";", i)
        /\ NodeRead(s, i, ParseBinary(f, ";", i))
    BY <2>3, <2>4, Zenon DEF Separators
  <2> QED BY <1>1, <2>5, Zenon DEF Operand
<1>2. CASE sep = ";"
  <2>1. Agree(s, f, g, Distance(s, i))
    BY <1>2, Zenon DEF Weight
  <2>2. /\ ParseConstraint(s, f, i) = ParseConstraint(s, g, i)
        /\ NodeRead(s, i, ParseConstraint(s, f, i))
    BY <2>1, ConstraintProper
  <2> QED BY <1>2, <2>2, Zenon DEF Operand
<1> QED BY <1>1, <1>2 DEF Separators

\* An operand read, and the operands behind its separator.
LEMMA FollowedProper ==
    ASSUME NEW s, Len(s) \in Nat, NEW i \in 1..(Len(s) + 1), NEW j \in (i + 3)..Len(s),
           NEW n \in Fitting(j - i), NEW rest, OperandsRead(s, j + 1, rest)
    PROVE  OperandsRead(s, i, FollowedBy(n, rest))
<1>1. CASE ~rest.ok
  BY <1>1 DEF FollowedBy, OperandsRead
<1>2. CASE rest.ok
  <2> DEFINE all == <<n>> \o rest.node
  <2>1. FollowedBy(n, rest) = Got(rest.at, all)
    BY <1>2 DEF FollowedBy
  <2>2. /\ rest.at \in ((j + 1) + 3)..(Len(s) + 1)
        /\ \/ Len(rest.node) = 1 /\ rest.node \in Seq(Fitting(rest.at - (j + 1)))
           \/ Len(rest.node) >= 2 /\ rest.at >= (j + 1) + 7 /\ rest.node \in Seq(Fitting(rest.at - (j + 1) - 4))
    BY <1>2 DEF OperandsRead
  <2>3. /\ rest.at \in (i + 3)..(Len(s) + 1) /\ rest.at >= i + 7
        /\ j - i \in Nat /\ rest.at - (j + 1) \in Nat /\ rest.at - i - 4 \in Nat
        /\ j - i =< rest.at - i - 4 /\ rest.at - (j + 1) =< rest.at - i - 4
        /\ rest.at >= (j + 1) + 7 => /\ rest.at - (j + 1) - 4 \in Nat
                                     /\ rest.at - (j + 1) - 4 =< rest.at - i - 4
    <3>1. PICK m \in Nat : m = Len(s)
      OBVIOUS
    <3>2. PICK a : a = rest.at
      OBVIOUS
    <3>3. a \in ((j + 1) + 3)..(m + 1) /\ i \in 1..(m + 1) /\ j \in (i + 3)..m
      BY <2>2, <3>1, <3>2
    <3>4. /\ a \in (i + 3)..(m + 1) /\ a >= i + 7
          /\ j - i \in Nat /\ a - (j + 1) \in Nat /\ a - i - 4 \in Nat
          /\ j - i =< a - i - 4 /\ a - (j + 1) =< a - i - 4
      BY ONLY m \in Nat, <3>3
    <3>5. a >= (j + 1) + 7 => a - (j + 1) - 4 \in Nat /\ a - (j + 1) - 4 =< a - i - 4
      BY ONLY m \in Nat, <3>3
    <3> QED BY <3>1, <3>2, <3>4, <3>5, Zenon
  <2>4. PICK w \in Nat : w = rest.at - i - 4
    BY <2>3
  <2>5. n \in Fitting(w)
    BY <2>3, <2>4, FittingGrows
  <2>6. rest.node \in Seq(Fitting(w)) /\ Len(rest.node) \in Nat /\ Len(rest.node) >= 1
    <3>1. CASE Len(rest.node) = 1 /\ rest.node \in Seq(Fitting(rest.at - (j + 1)))
      <4>1. Fitting(rest.at - (j + 1)) \subseteq Fitting(w)
        BY <2>3, <2>4, FittingGrows
      <4>2. rest.node \in Seq(Fitting(w))
        BY <3>1, <4>1, SeqMonotonic
      <4> QED BY <3>1, <4>2
    <3>2. CASE /\ Len(rest.node) >= 2 /\ rest.at >= (j + 1) + 7
               /\ rest.node \in Seq(Fitting(rest.at - (j + 1) - 4))
      <4>1. PICK u \in Nat : u = rest.at - (j + 1) - 4 /\ u =< w
        BY <2>3, <2>4, <3>2
      <4>2. Fitting(rest.at - (j + 1) - 4) \subseteq Fitting(w)
        BY <4>1, FittingGrows
      <4>3. rest.node \in Seq(Fitting(w))
        BY <3>2, <4>2, SeqMonotonic
      <4> QED BY <3>2, <4>3
    <3> QED BY <2>2, <3>1, <3>2
  <2>7. all \in Seq(Fitting(w)) /\ Len(all) >= 2
    <3>1. PICK S, t : S = Fitting(w) /\ t = rest.node
      OBVIOUS
    <3>2. n \in S /\ t \in Seq(S) /\ Len(t) \in Nat /\ Len(t) >= 1
      BY <2>5, <2>6, <3>1
    <3>3. <<n>> \o t \in Seq(S) /\ Len(<<n>> \o t) >= 2
      BY ONLY <3>2
    <3> QED BY <3>1, <3>3
  <2> HIDE DEF all
  <2>8. \A r : /\ r.ok /\ r.at = rest.at /\ r.node = all => OperandsRead(s, i, r)
    BY <2>3, <2>4, <2>7 DEF OperandsRead
  <2> QED BY <2>1, <2>8, AnswerIs, Zenon
<1> QED BY <1>1, <1>2

LEMMA OperandsProper ==
    ASSUME NEW s, Len(s) \in Nat, NEW sep \in Separators, NEW i \in 1..(Len(s) + 1),
           NEW f, NEW g, Agree(s, f, g, Weight(s, sep, i))
    PROVE  Operands(s, f, sep, i) = Operands(s, g, sep, i) /\ OperandsRead(s, i, Operands(s, f, sep, i))
<1> DEFINE r == Operand(s, f, sep, i)
           behind == FollowedBy(r.node, f[<<sep, r.at + 1>>])
           whole == IF ~r.ok THEN r
                    ELSE IF At(s, r.at) = sep THEN behind ELSE Got(r.at, <<r.node>>)
<1>1. r = Operand(s, g, sep, i) /\ NodeRead(s, i, r)
  BY OperandProper
<1>2. Operands(s, f, sep, i) = whole
  BY Zenon DEF Operands
<1> HIDE DEF r
<1>3. CASE r.ok /\ At(s, r.at) = sep
  <2>1. r.at \in (i + 3)..(Len(s) + 1) /\ r.node \in Fitting(r.at - i)
    BY <1>1, <1>3 DEF NodeRead
  <2>2. r.at =< Len(s)
    <3>1. sep # "EOF"
      BY DEF Separators
    <3> QED BY <1>3, <3>1, TokenIs, Zenon
  <2>3. r.at \in (i + 3)..Len(s) /\ r.at + 1 \in 1..(Len(s) + 1) /\ i < r.at + 1
    BY <2>1, <2>2
  <2>4. /\ f[<<sep, r.at + 1>>] = g[<<sep, r.at + 1>>]
        /\ OperandsRead(s, r.at + 1, f[<<sep, r.at + 1>>])
    <3>1. Weight(s, sep, r.at + 1) < Weight(s, sep, i)
      <4>1. \A j \in 1..(Len(s) + 1) :
               i < j => Distance(s, j) < Distance(s, i) /\ Distance(s, j) + 1 < Distance(s, i) + 1
        BY ONLY Len(s) \in Nat, i \in 1..(Len(s) + 1) DEF Distance
      <4> QED BY <2>3, <4>1, Zenon DEF Weight
    <3>2. sep \in Wanted /\ sep # "args"
      BY DEF Wanted, Separators
    <3> QED BY <2>3, <3>1, <3>2, Zenon DEF Agree, Proper
  <2>5. Operands(s, g, sep, i) = behind /\ Operands(s, f, sep, i) = behind
    BY <1>1, <1>2, <1>3, <2>4, Zenon DEF Operands
  <2>6. OperandsRead(s, i, behind)
    BY <2>1, <2>3, <2>4, FollowedProper
  <2> HIDE DEF behind
  <2> QED BY <2>5, <2>6
<1>4. CASE r.ok /\ At(s, r.at) # sep
  <2> DEFINE final == Got(r.at, <<r.node>>)
  <2>1. Operands(s, g, sep, i) = final /\ Operands(s, f, sep, i) = final
    BY <1>1, <1>2, <1>4, Zenon DEF Operands
  <2>2. r.at \in (i + 3)..(Len(s) + 1) /\ r.node \in Fitting(r.at - i)
    BY <1>1, <1>4 DEF NodeRead
  <2>3. Len(<<r.node>>) = 1 /\ <<r.node>> \in Seq(Fitting(r.at - i))
    BY <2>2
  <2>4. final.at = r.at /\ final.node = <<r.node>>
    BY AnswerIs
  <2> HIDE DEF final
  <2>5. OperandsRead(s, i, final)
    BY <2>2, <2>3, <2>4, Zenon DEF OperandsRead
  <2> QED BY <2>1, <2>5
<1>5. CASE ~r.ok
  <2>1. Operands(s, g, sep, i) = r /\ Operands(s, f, sep, i) = r
    BY <1>1, <1>2, <1>5, Zenon DEF Operands
  <2>2. OperandsRead(s, i, r)
    BY <1>5 DEF OperandsRead
  <2> QED BY <2>1, <2>2
<1> QED BY <1>3, <1>4, <1>5

LEMMA ProductionProper ==
    ASSUME NEW s, Len(s) \in Nat, NEW what \in Wanted, NEW i \in 1..(Len(s) + 1),
           NEW f, NEW g, Agree(s, f, g, Weight(s, what, i))
    PROVE  /\ Production(s, f, <<what, i>>) = Production(s, g, <<what, i>>)
           /\ Proper(s, what, i, Production(s, f, <<what, i>>))
<1>1. CASE what = "args"
  <2>1. Agree(s, f, g, Distance(s, i))
    BY <1>1, Zenon DEF Weight
  <2>2. \A h : Production(s, h, <<what, i>>) = MoreArguments(s, h, i)
    BY <1>1 DEF Production
  <2>3. /\ MoreArguments(s, f, i) = MoreArguments(s, g, i)
        /\ ArgumentsRead(s, i, MoreArguments(s, f, i))
    BY <2>1, ArgumentsProper
  <2> QED BY <1>1, <2>2, <2>3, Zenon DEF Proper
<1>2. CASE what # "args"
  <2>1. what \in Separators
    BY <1>2 DEF Wanted, Separators
  <2>2. \A h : Production(s, h, <<what, i>>) = Operands(s, h, what, i)
    BY <1>2 DEF Production
  <2>3. Operands(s, f, what, i) = Operands(s, g, what, i) /\ OperandsRead(s, i, Operands(s, f, what, i))
    BY <2>1, OperandsProper
  <2> QED BY <1>2, <2>2, <2>3, Zenon DEF Proper
<1> QED BY <1>1, <1>2

-----------------------------------------------------------------------------
(* The function Parse is defined by, weight by weight. *)

\* f is what reading gives, for everything of less weight than w.
Reads(f, s, w) ==
    \A what \in Wanted, i \in 1..(Len(s) + 1) :
       Weight(s, what, i) < w =>
          /\ f[<<what, i>>] = Production(s, f, <<what, i>>)
          /\ Proper(s, what, i, f[<<what, i>>])

LEMMA WeightIsNat ==
    ASSUME NEW s, Len(s) \in Nat, NEW what \in Wanted, NEW i \in 1..(Len(s) + 1)
    PROVE  Weight(s, what, i) \in Nat /\ Weight(s, what, i) < 2 * Len(s) + 2
<1>1. /\ Distance(s, i) \in Nat /\ Distance(s, i) + 1 \in Nat
      /\ Distance(s, i) < 2 * Len(s) + 2 /\ Distance(s, i) + 1 < 2 * Len(s) + 2
  BY DEF Distance
<1> QED BY <1>1, Zenon DEF Weight

LEMMA GoalsAre ==
    ASSUME NEW s
    PROVE  /\ \A what \in Wanted, i \in 1..(Len(s) + 1) : <<what, i>> \in Goals(s)
           /\ \A e \in Goals(s) : e[1] \in Wanted /\ e[2] \in 1..(Len(s) + 1) /\ e = <<e[1], e[2]>>
<1>1. \A A, B : /\ \A a \in A, b \in B : <<a, b>> \in A \X B
                /\ \A e \in A \X B : e[1] \in A /\ e[2] \in B /\ e = <<e[1], e[2]>>
  OBVIOUS
<1>2. Goals(s) = Wanted \X (1..(Len(s) + 1))
  BY DEF Goals, Wanted
<1>3. PICK B : B = 1..(Len(s) + 1)
  OBVIOUS
<1>4. PICK A : A = Wanted
  OBVIOUS
<1>5. /\ \A a \in A, b \in B : <<a, b>> \in A \X B
      /\ \A e \in A \X B : e[1] \in A /\ e[2] \in B /\ e = <<e[1], e[2]>>
  BY ONLY <1>1
<1> QED BY ONLY <1>2, <1>3, <1>4, <1>5

LEMMA ReadsFurther ==
    ASSUME NEW s, Len(s) \in Nat, NEW w \in Nat, NEW f, Reads(f, s, w)
    PROVE  \E g : Reads(g, s, w + 1)
<1> DEFINE g == [e \in Goals(s) |-> IF Weight(s, e[1], e[2]) < w THEN f[e] ELSE Production(s, f, e)]
<1>1. \A what \in Wanted, i \in 1..(Len(s) + 1) :
         g[<<what, i>>] = IF Weight(s, what, i) < w THEN f[<<what, i>>]
                          ELSE Production(s, f, <<what, i>>)
  <2>1. SUFFICES ASSUME NEW what \in Wanted, NEW i \in 1..(Len(s) + 1)
                 PROVE  g[<<what, i>>] = IF Weight(s, what, i) < w THEN f[<<what, i>>]
                                         ELSE Production(s, f, <<what, i>>)
    OBVIOUS
  <2>2. PICK e : e = <<what, i>>
    OBVIOUS
  <2>3. e \in Goals(s) /\ e[1] = what /\ e[2] = i
    BY <2>2, GoalsAre
  <2>4. g[e] = IF Weight(s, e[1], e[2]) < w THEN f[e] ELSE Production(s, f, e)
    BY <2>3, Zenon
  <2> QED BY <2>2, <2>3, <2>4, Zenon
<1> HIDE DEF g
<1>2. \A what \in Wanted, i \in 1..(Len(s) + 1) :
         Weight(s, what, i) < w =>
            f[<<what, i>>] = g[<<what, i>>] /\ Proper(s, what, i, f[<<what, i>>])
  BY <1>1, Zenon DEF Reads
<1>3. SUFFICES ASSUME NEW what \in Wanted, NEW i \in 1..(Len(s) + 1), Weight(s, what, i) < w + 1
               PROVE  /\ g[<<what, i>>] = Production(s, g, <<what, i>>)
                      /\ Proper(s, what, i, g[<<what, i>>])
  BY DEF Reads
<1> DEFINE v == Weight(s, what, i)
<1>4. v \in Nat /\ v =< w
  <2>1. v \in Nat
    BY WeightIsNat
  <2> HIDE DEF v
  <2> QED BY <1>3, <2>1 DEF v
<1>5. Agree(s, f, g, v)
  <2>1. SUFFICES ASSUME NEW t \in Wanted, NEW j \in 1..(Len(s) + 1), Weight(s, t, j) < v
                 PROVE  f[<<t, j>>] = g[<<t, j>>] /\ Proper(s, t, j, f[<<t, j>>])
    BY DEF Agree
  <2>2. Weight(s, t, j) \in Nat
    BY WeightIsNat
  <2>3. Weight(s, t, j) < w
    <3> HIDE DEF v
    <3> QED BY <1>4, <2>1, <2>2
  <2> QED BY <1>2, <2>3, Zenon
<1>6. /\ Production(s, f, <<what, i>>) = Production(s, g, <<what, i>>)
      /\ Proper(s, what, i, Production(s, f, <<what, i>>))
  BY <1>5, ProductionProper
<1>7. g[<<what, i>>] = Production(s, f, <<what, i>>)
  <2>1. CASE v < w
    BY <1>1, <2>1, Zenon DEF Reads
  <2>2. CASE ~(v < w)
    BY <1>1, <2>2, Zenon
  <2> QED BY <2>1, <2>2
<1> QED BY <1>6, <1>7, Zenon

LEMMA ReadsExist ==
    ASSUME NEW s, Len(s) \in Nat, NEW w \in Nat
    PROVE  \E f : Reads(f, s, w)
<1> DEFINE T == {v \in Nat : ~(\E f : Reads(f, s, v))}
<1>1. SUFFICES ASSUME T # {} PROVE FALSE
  OBVIOUS
<1>2. PICK v \in T : \A u \in T : v =< u
  BY <1>1, Least
<1>3. CASE v = 0
  <2>1. \A what \in Wanted, i \in 1..(Len(s) + 1) : ~(Weight(s, what, i) < v)
    <3>1. SUFFICES ASSUME NEW what \in Wanted, NEW i \in 1..(Len(s) + 1)
                   PROVE  ~(Weight(s, what, i) < 0)
      BY <1>3
    <3>2. \A n \in Nat : ~(n < 0)
      OBVIOUS
    <3> QED BY <3>2, WeightIsNat
  <2>2. Reads(<<>>, s, v)
    BY <2>1, Zenon DEF Reads
  <2> QED BY <1>2, <2>2
<1>4. CASE v # 0
  <2>1. PICK u \in Nat : u + 1 = v
    <3>1. v - 1 \in Nat /\ (v - 1) + 1 = v
      BY <1>2, <1>4
    <3> QED BY <3>1
  <2>2. u \notin T
    <3>1. ~(v =< u)
      BY <2>1
    <3> QED BY <1>2, <3>1
  <2>3. \E g : Reads(g, s, u + 1)
    BY <2>2, ReadsFurther
  <2> QED BY <1>2, <2>1, <2>3
<1> QED BY <1>3, <1>4

\* What an expression is parsed to, if it is, is a node.
LEMMA ParseIs ==
    ASSUME NEW s, Len(s) \in Nat, Len(s) =< 4 * Levels + 6, Parse(s).ok
    PROVE  Parse(s).node \in Nodes
<1> DEFINE f == CHOOSE f : f = [e \in Goals(s) |-> Production(s, f, e)]
           r == ParseBinary(f, ",", 1)
<1>1. Parse(s) = IF r.ok /\ r.at # Len(s) + 1 THEN Unexpected(r.at) ELSE r
  BY Zenon DEF Parse
<1>2. f = [e \in Goals(s) |-> Production(s, f, e)]
  <2>1. PICK h : Reads(h, s, 2 * Len(s) + 2)
    BY ReadsExist
  <2> DEFINE g == [e \in Goals(s) |-> h[e]]
  <2>2. ASSUME NEW what \in Wanted, NEW i \in 1..(Len(s) + 1)
        PROVE  /\ h[<<what, i>>] = g[<<what, i>>]
               /\ h[<<what, i>>] = Production(s, h, <<what, i>>)
               /\ Proper(s, what, i, h[<<what, i>>])
    <3>1. Weight(s, what, i) < 2 * Len(s) + 2
      BY WeightIsNat
    <3>2. <<what, i>> \in Goals(s)
      BY GoalsAre
    <3> QED BY <2>1, <3>1, <3>2, Zenon DEF Reads
  <2>3. g = [e \in Goals(s) |-> g[e]]
    OBVIOUS
  <2> HIDE DEF g
  <2>4. ASSUME NEW e \in Goals(s) PROVE g[e] = Production(s, g, e)
    <3>1. PICK what \in Wanted, i \in 1..(Len(s) + 1) : e = <<what, i>>
      BY GoalsAre, Zenon
    <3>2. Agree(s, h, g, Weight(s, what, i))
      BY <2>2, Zenon DEF Agree
    <3>3. Production(s, h, <<what, i>>) = Production(s, g, <<what, i>>)
      BY <3>2, ProductionProper
    <3> QED BY <2>2, <3>1, <3>3, Zenon
  <2>5. g = [e \in Goals(s) |-> Production(s, g, e)]
    BY <2>3, <2>4, Zenon
  <2> QED BY <2>5, Zenon
<1> HIDE DEF f
<1>3. \A what \in Wanted, i \in 1..(Len(s) + 1) : f[<<what, i>>] = Production(s, f, <<what, i>>)
  BY <1>2, GoalsAre, Zenon
<1>4. ASSUME NEW w \in Nat
      PROVE  Agree(s, f, f, w)
  <2> DEFINE T == {v \in Nat : ~Agree(s, f, f, v)}
  <2>1. SUFFICES ASSUME T # {} PROVE FALSE
    OBVIOUS
  <2>2. PICK v \in T : \A u \in T : v =< u
    BY <2>1, Least
  <2>3. PICK what \in Wanted, i \in 1..(Len(s) + 1) :
           Weight(s, what, i) < v /\ ~Proper(s, what, i, f[<<what, i>>])
    BY <2>2, Zenon DEF Agree
  <2>4. Weight(s, what, i) \in Nat
    BY WeightIsNat
  <2>5. Weight(s, what, i) \notin T
    <3>1. ~(v =< Weight(s, what, i))
      <4>1. \A n \in Nat : n < v => ~(v =< n)
        BY <2>2
      <4> QED BY <2>3, <2>4, <4>1, Zenon
    <3> QED BY <2>2, <3>1, Zenon
  <2>6. Proper(s, what, i, Production(s, f, <<what, i>>))
    BY <2>4, <2>5, ProductionProper
  <2> QED BY <1>3, <2>3, <2>6, Zenon
<1>5. NodeRead(s, 1, r)
  <2>1. 1 \in 1..(Len(s) + 1) /\ 2 * Len(s) + 2 \in Nat
    OBVIOUS
  <2>2. \A what \in Wanted : Proper(s, what, 1, f[<<what, 1>>])
    BY <1>4, <2>1, WeightIsNat DEF Agree
  <2>3. OperandsRead(s, 1, f[<<",", 1>>])
    BY <2>2, Zenon DEF Proper, Wanted
  <2>4. \A sep \in Separators :
           OperandsRead(s, 1, f[<<sep, 1>>]) => NodeRead(s, 1, ParseBinary(f, sep, 1))
    BY <2>1, BinaryProper
  <2> QED BY <2>3, <2>4, Zenon DEF Separators
<1> HIDE DEF r
<1>6. Parse(s) = r /\ r.ok
  BY <1>1, AnswerIs
<1>7. r.at \in (1 + 3)..(Len(s) + 1) /\ r.node \in Fitting(r.at - 1)
  BY <1>5, <1>6 DEF NodeRead
<1>8. Levels \in Nat /\ r.at - 1 =< 4 * Levels + 6
  BY <1>7, KeyboardsAssumption
<1>9. r.node \in NodesTo(Levels)
  BY <1>7, <1>8 DEF Fitting
<1> QED BY <1>6, <1>9 DEF NodesTo, Nodes

-----------------------------------------------------------------------------
(* The filter of the service. *)

LEMMA BindResult ==
    ASSUME NEW s, NEW lim, Len(s) \in Nat, Len(s) =< 4 * Levels + 6, Bind(s, lim) # Refused
    PROVE  Bind(s, lim) \in BoundTo(Levels)
<1>1. Parse(s).ok /\ Bind(s, lim) = Walk(Parse(s).node, 1, lim)
  BY Zenon DEF Bind
<1>2. Parse(s).node \in NodesTo(Levels)
  BY <1>1, ParseIs DEF NodesTo, Nodes
<1>3. Levels \in Nat /\ Levels =< Levels /\ 1 \in Nat
  BY KeyboardsAssumption
<1>4. Walk(Parse(s).node, 1, lim) \in BoundTo(Levels) \cup {Refused}
  BY <1>2, <1>3, WalkBinds
<1> QED BY <1>1, <1>4

\* What is bound is the expression, which is no longer than the keyboard allows.
FilterInv ==
    /\ expr \in Seq(DOMAIN Rank)
    /\ keyboard \in Keyboards
    /\ Len(expr) =< keyboard.max
    /\ bound = Bind(expr, limits)

LEMMA FilterStarts == FilterInit => FilterInv
<1>1. SUFFICES ASSUME FilterInit PROVE FilterInv
  OBVIOUS
<1>2. expr = <<>> /\ keyboard \in Keyboards /\ bound = Bind(expr, limits)
  BY <1>1, Zenon DEF FilterInit
<1>3. keyboard.max \in Nat
  BY <1>2, KeyboardsAssumption
<1>4. expr \in Seq(DOMAIN Rank) /\ Len(expr) =< keyboard.max
  BY <1>2, <1>3
<1> QED BY <1>2, <1>4 DEF FilterInv

LEMMA FilterSteps == FilterInv /\ [FilterNext]_filterVars => FilterInv'
<1> SUFFICES ASSUME FilterInv, [FilterNext]_filterVars PROVE FilterInv'
  OBVIOUS
<1>1. ASSUME NEW t \in keyboard.tokens, Open, Type(t) PROVE FilterInv'
  <2>1. /\ expr' = Append(expr, t) /\ bound' = Bind(expr', limits)
        /\ keyboard' = keyboard /\ limits' = limits
    BY <1>1, Zenon DEF Type
  <2>2. Len(expr) < keyboard.max
    BY <1>1, Zenon DEF Open
  <2>3. t \in DOMAIN Rank /\ keyboard.max \in Nat
    BY KeyboardsAssumption DEF FilterInv
  <2>4. expr' \in Seq(DOMAIN Rank) /\ Len(expr') =< keyboard.max
    <3>1. expr \in Seq(DOMAIN Rank)
      BY DEF FilterInv
    <3> QED BY <2>1, <2>2, <2>3, <3>1
  <2>5. bound' = Bind(expr', limits')
    BY <2>1, Zenon
  <2> QED BY <2>1, <2>4, <2>5 DEF FilterInv
<1>2. CASE UNCHANGED filterVars
  BY <1>2 DEF FilterInv, filterVars
<1> QED BY <1>1, <1>2 DEF FilterNext

(* In every state what is bound is what Bind makes of the expression,      *)
(* which is no longer than the nodes it may be parsed to (schema.go:81).   *)
THEOREM FilterInvariance == FilterSpec => []FilterInv
<1>1. FilterInit => FilterInv
  BY FilterStarts
<1>2. FilterInv /\ [FilterNext]_filterVars => FilterInv'
  BY FilterSteps
<1> QED BY <1>1, <1>2, PTL DEF FilterSpec

(* The document mongox.ToFilter makes of a filter that was parsed and      *)
(* bound finds the records the filter asks for and no others, whatever     *)
(* the schema, the limits and the expression (mongox.go:20-76).            *)
THEOREM DocumentsFindWhatIsAsked == FilterSpec => []MongoAgrees
<1>1. FilterInv => MongoAgrees
  <2>1. SUFFICES ASSUME FilterInv, bound # Refused PROVE MongoFinds(ToFilter(bound)) = Sought(bound)
    BY DEF MongoAgrees
  <2>2. Len(expr) \in Nat /\ Len(expr) =< 4 * Levels + 6
    <3>1. expr \in Seq(DOMAIN Rank) /\ keyboard \in Keyboards /\ Len(expr) =< keyboard.max
      BY <2>1 DEF FilterInv
    <3>2. keyboard.max \in Nat /\ keyboard.max =< 4 * Levels + 6 /\ Levels \in Nat
      BY <3>1, KeyboardsAssumption
    <3>3. Len(expr) \in Nat
      BY <3>1
    <3> QED BY <3>1, <3>2, <3>3
  <2>3. bound \in BoundTo(Levels)
    BY <2>1, <2>2, BindResult DEF FilterInv
  <2>4. Levels \in Nat /\ Levels =< Levels
    BY KeyboardsAssumption
  <2> QED BY <2>3, <2>4, DocumentIs
<1> QED BY <1>1, FilterInvariance, PTL

==============================================================================
