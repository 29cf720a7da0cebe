------------------------------ MODULE PathText ------------------------------
(***************************************************************************)
(* The texts that fluxlit configures and compares as URL paths.  Of a text *)
(* the code looks at three things only: a leading slash, what is left when *)
(* slashes are stripped, and a trailing slash.  Names are numbers in the   *)
(* order in which Python compares them; 0 is the empty name.               *)
(***************************************************************************)
EXTENDS Naturals

Text(l, n, t) == [lead |-> l, name |-> n, trail |-> t]
Texts == [lead : BOOLEAN, name : Nat, trail : BOOLEAN]

Empty == Text(FALSE, 0, FALSE)   \* ""
Slash == Text(TRUE, 0, FALSE)    \* "/"
Blank == Text(FALSE, 0, TRUE)    \* white space only

Word(n) == Text(FALSE, n, FALSE)
Rooted(n) == Text(TRUE, n, FALSE)

(* str.strip(): no text but the blank one has white space around it.       *)
Strip(p) == IF p = Blank THEN Empty ELSE p

(* rstrip("/") *)
RStrip(p) == IF p.name = 0 THEN Empty ELSE [p EXCEPT !.trail = FALSE]

(* How Python orders two texts: "/" is smaller than every letter.          *)
TextLess(p, q) ==
  \/ p.lead /\ ~q.lead
  \/ p.lead = q.lead /\ p.name < q.name
  \/ p.lead = q.lead /\ p.name = q.name /\ ~p.trail /\ q.trail
=============================================================================
