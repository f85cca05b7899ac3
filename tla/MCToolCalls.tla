---------------------------- MODULE MCToolCalls ----------------------------
(* Two calls on two instances: one of any tool, one of the caller's SQL. *)
EXTENDS ToolCalls, TLC

CONSTANTS c1, c2, i1, i2

MCToolsOf ==
  c1 :> (Exposed("dba") \union Exposed("write")) @@
  c2 :> {"execute_query"}

MCSymmetry == Permutations(Target)

(* The texts a caller may send: every one of up to five characters, longer  *)
(* ones of those that open and close comments and strings.                  *)
MCChar  == {"-", "/", "*", "'", "[", "]", "\"", Newline, "w"}
MCTexts == Texts(MCChar \ {"\""}, 5) \union Texts({"/", "*", "'"}, 8)
           \union Texts({"-", "\"", "'", "w"}, 5)
=============================================================================
