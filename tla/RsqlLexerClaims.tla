-------------------------- MODULE RsqlLexerClaims --------------------------
(* A comment of rsql/canonical.go about the quoting of values. *)
EXTENDS RsqlLexer

(* canonical.go:54-55: "literal quotes anything that could not be lexed    *)
(* bare, so the canonical form stays valid RSQL": the lexer reads every    *)
(* rendered value back as that value.                                      *)
EveryValueReadable ==
    value.known =>
        /\ mode # "error"
        /\ mode = "end" => toks = Expected

=============================================================================
