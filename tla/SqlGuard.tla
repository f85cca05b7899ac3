------------------------------ MODULE SqlGuard -----------------------------
(***************************************************************************)
(* stripNoise of safety.ts: what the guards and applyRowLimit look at of a *)
(* batch, comments and string literals taken out.  A text is a sequence of *)
(* characters; one letter stands for all that start nothing.               *)
(*                                                                         *)
(* The code is a loop over the characters with a loop inside for each thing*)
(* that can be open.  A turn here is one of whichever of them it is in.    *)
(***************************************************************************)
EXTENDS Naturals, Sequences

CONSTANTS
  Char,  \* the characters of a batch
  Text   \* the batches looked at

ASSUME TextAssumption == \A q \in Text : q \in Seq(Char)

Newline == "newline"

(* at: the next character.  in: the loop it is in.  close: what ends the    *)
(* literal or the name it is in.                                            *)
Opened == [in |-> "batch", at |-> 1, depth |-> 0, close |-> "", out |-> <<>>]

Starts(q, i, a, b) == i < Len(q) /\ q[i] = a /\ q[i + 1] = b

(* What opens a comment belongs to its loop, whose first turn it is.        *)
InBatch(q, s) ==
  LET c == q[s.at] IN
  IF Starts(q, s.at, "-", "-")
  THEN [s EXCEPT !.in = "line", !.at = @ + 2, !.out = Append(@, " ")]
  ELSE IF Starts(q, s.at, "/", "*")
  THEN [s EXCEPT !.in = "comment", !.depth = @ + 1, !.at = @ + 2, !.out = Append(@, " ")]
  ELSE IF c = "'"
  THEN [s EXCEPT !.in = "string", !.close = c, !.at = @ + 1,
                 !.out = Append(Append(@, c), c)]
  ELSE IF c \in {"[", "\""}
  THEN [s EXCEPT !.in = "name", !.close = IF c = "[" THEN "]" ELSE c, !.at = @ + 1,
                 !.out = Append(@, c)]
  ELSE [s EXCEPT !.at = @ + 1, !.out = Append(@, c)]

InLine(q, s) ==
  IF q[s.at] = Newline THEN [s EXCEPT !.in = "batch"] ELSE [s EXCEPT !.at = @ + 1]

\* mutant: the first end of a comment ends it
InFlatComment(q, s) ==
  IF Starts(q, s.at, "*", "/") THEN [s EXCEPT !.in = "batch", !.at = @ + 2]
  ELSE [s EXCEPT !.at = @ + 1]

InComment(q, s) ==
  IF Starts(q, s.at, "/", "*") THEN [s EXCEPT !.depth = @ + 1, !.at = @ + 2]
  ELSE IF Starts(q, s.at, "*", "/")
  THEN [s EXCEPT !.depth = @ - 1, !.at = @ + 2, !.in = IF s.depth = 1 THEN "batch" ELSE @]
  ELSE [s EXCEPT !.at = @ + 1]

(* A name is kept as written, a literal is not.                             *)
Copied(s, c) == IF s.in = "name" THEN [s EXCEPT !.out = Append(@, c)] ELSE s

(* endOf: up to the closing delimiter, which is escaped by doubling it.     *)
InDelimited(q, s) ==
  LET c == q[s.at]
      one == Copied([s EXCEPT !.at = @ + 1], c)
  IN  IF c # s.close THEN one
      ELSE IF Starts(q, s.at, c, c) THEN Copied([one EXCEPT !.at = @ + 1], c)
      ELSE [one EXCEPT !.in = "batch"]

Turn(q, s) ==
  IF s.at > Len(q) THEN s
  ELSE CASE s.in = "batch"   -> InBatch(q, s)
         [] s.in = "line"    -> InLine(q, s)
         [] s.in = "comment" -> InComment(q, s)
         [] OTHER            -> InDelimited(q, s)

(* A turn takes a character, but for the one at the end of a line, and no   *)
(* character ends two lines.                                                *)
Scan(q) ==
  LET scan[k \in 0 .. 2 * Len(q)] == IF k = 0 THEN Opened ELSE Turn(q, scan[k - 1])
  IN  scan

stripNoise(q) == Scan(q)[2 * Len(q)].out

----------------------------------------------------------------------------
(* The reference: the lexer of the language, one character after the other, *)
(* with what the last one left open.                                        *)
Code(s, c) ==
  CASE c = "-"  -> [s EXCEPT !.mode = "dash"]
    [] c = "/"  -> [s EXCEPT !.mode = "slash"]
    [] c = "'"  -> [s EXCEPT !.mode = "string", !.out = Append(Append(@, c), c)]
    [] c = "["  -> [s EXCEPT !.mode = "name", !.close = "]", !.out = Append(@, c)]
    [] c = "\"" -> [s EXCEPT !.mode = "name", !.close = c, !.out = Append(@, c)]
    [] OTHER    -> [s EXCEPT !.mode = "code", !.out = Append(@, c)]

AfterPending(s, p, c) == Code([s EXCEPT !.out = Append(@, p)], c)

Comment(s, c) ==
  CASE s.mode = "star" /\ c = "/" ->
         [s EXCEPT !.depth = @ - 1, !.mode = IF s.depth = 1 THEN "code" ELSE "comment"]
    [] s.mode = "opening" /\ c = "*" -> [s EXCEPT !.depth = @ + 1, !.mode = "comment"]
    [] c = "*" /\ s.mode # "opening" -> [s EXCEPT !.mode = "star"]
    [] c = "/" /\ s.mode # "star"    -> [s EXCEPT !.mode = "opening"]
    [] OTHER -> [s EXCEPT !.mode = "comment"]

LexStep(s, c) ==
  CASE s.mode = "code"   -> Code(s, c)
    [] s.mode = "dash"   -> IF c = "-" THEN [s EXCEPT !.mode = "line", !.out = Append(@, " ")]
                            ELSE AfterPending(s, "-", c)
    [] s.mode = "slash"  -> IF c = "*" THEN [s EXCEPT !.mode = "comment", !.depth = @ + 1,
                                               !.out = Append(@, " ")]
                            ELSE AfterPending(s, "/", c)
    [] s.mode = "line"   -> IF c = Newline THEN Code(s, c) ELSE s
    [] s.mode = "string" -> IF c = "'" THEN [s EXCEPT !.mode = "quote"] ELSE s
    [] s.mode = "quote"  -> IF c = "'" THEN [s EXCEPT !.mode = "string"] ELSE Code(s, c)
    [] s.mode = "name"   -> [s EXCEPT !.out = Append(@, c),
                                      !.mode = IF c = s.close THEN "named" ELSE "name"]
    [] s.mode = "named"  -> IF c = s.close THEN [s EXCEPT !.mode = "name", !.out = Append(@, c)]
                            ELSE Code(s, c)
    [] OTHER             -> Comment(s, c)

NothingRead == [mode |-> "code", depth |-> 0, close |-> "", out |-> <<>>]

Lex(q) ==
  LET lex[k \in 0 .. Len(q)] == IF k = 0 THEN NothingRead ELSE LexStep(lex[k - 1], q[k])
  IN  lex

(* A character that began nothing is one of the batch.                      *)
Ended(s) ==
  CASE s.mode = "dash"  -> Append(s.out, "-")
    [] s.mode = "slash" -> Append(s.out, "/")
    [] OTHER            -> s.out

Texts(alphabet, most) == UNION {[1..n -> alphabet] : n \in 0..most}

ReadAsTheServer(q) == stripNoise(q) = Ended(Lex(q)[Len(q)])
=============================================================================
