---------------------------- MODULE Accumulator ----------------------------
(***************************************************************************)
(* What a geobucket promises (src/src/kbucket.rs): one polynomial that     *)
(* multiples are subtracted from and whose leading term can be read or     *)
(* taken off.                                                              *)
(***************************************************************************)
EXTENDS Polynomials

CONSTANTS Multipliers, Subtrahends, Nothing

VARIABLES
  sum,      \* the polynomial
  asked,    \* the call in progress: "subtract", "leading", "extract" or Nothing
  answer    \* what the last question was answered with, until the next call

vars == <<sum, asked, answer>>

Coefficients == 1 .. P - 1

Init == sum \in Subtrahends \cup {Zero} /\ asked = Nothing /\ answer = Nothing

(* What one call may add: the products -c * m * p.                         *)
Products ==
  {MinusMMultP(Zero, m, c, p) : m \in Multipliers, c \in Coefficients, p \in Subtrahends}

(* A subtraction changes the value when it begins.                         *)
Subtract ==
  /\ asked = Nothing /\ asked' \in {"subtract", Nothing}
  /\ answer' = Nothing
  /\ \E old \in {sum}, new \in {sum'} : MinusMMultP(new, One, 1, old) \in Products

Subtracted == asked = "subtract" /\ asked' = Nothing /\ UNCHANGED <<sum, answer>>

Ask ==
  /\ asked = Nothing /\ asked' \in {"leading", "extract"}
  /\ answer' = Nothing
  /\ UNCHANGED sum

Reply ==
  /\ asked \in {"leading", "extract"} /\ asked' = Nothing
  /\ \E old \in {sum} :
       /\ answer' = IF old = Zero THEN [c |-> 0, m |-> One] ELSE [c |-> LC(old), m |-> LM(old)]
       /\ sum' = IF old = Zero \/ asked = "leading" THEN old ELSE DropLeading(old)

Next == Subtract \/ Subtracted \/ Ask \/ Reply

Spec == Init /\ [][Next]_vars
=============================================================================
