---------------------------- MODULE MCRsqlLexer ----------------------------
(* Expressions of up to four runes and values of up to three. *)
EXTENDS RsqlLexerClaims

MCRunes == {"a", "\"", "'", ",", "~", " ", "nbsp", "\\"}

MCRaw == SeqOf({"a", "=", "<", "!", "~", "(", "\"", "'", " ", "\\"}, 4)

MCLiterals == SeqOf(MCRunes, 3)

=============================================================================
