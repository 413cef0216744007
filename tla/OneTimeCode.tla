----------------------------- MODULE OneTimeCode -----------------------------
(***************************************************************************)
(* What the API promises of the codes it texts, without saying how: a code *)
(* is used once, a session is opened only by a used code, and the wrong    *)
(* guesses at a code are limited, both up to the number of verifications   *)
(* that the server may be handling at the same time.                       *)
(***************************************************************************)
EXTENDS Naturals

CONSTANTS
    Codes,          \* the codes ever made
    MaxGuesses,     \* wrong guesses after which a code is locked
    MaxTogether     \* verifications handled at the same time

VARIABLES
    state,      \* of each code: none, unused, used
    guesses,    \* wrong guesses counted on each code
    opened      \* sessions each code has opened

vars == <<state, guesses, opened>>

Init ==
    /\ state = [r \in Codes |-> "none"]
    /\ guesses = [r \in Codes |-> 0]
    /\ opened = [r \in Codes |-> 0]

Issue(r) ==
    /\ state[r] = "none"
    /\ state' = [state EXCEPT ![r] = "unused"]
    /\ UNCHANGED <<guesses, opened>>

\* A guess made while the code was unused may be counted after its use.
Guess(r) ==
    /\ state[r] # "none"
    /\ guesses[r] + 1 < MaxGuesses + MaxTogether
    /\ guesses' = [guesses EXCEPT ![r] = @ + 1]
    /\ UNCHANGED <<state, opened>>

Use(r) ==
    /\ state[r] = "unused"
    /\ state' = [state EXCEPT ![r] = "used"]
    /\ UNCHANGED <<guesses, opened>>

Open(r) ==
    /\ state[r] = "used"
    /\ opened[r] < MaxTogether
    /\ opened' = [opened EXCEPT ![r] = @ + 1]
    /\ UNCHANGED <<state, guesses>>

Next == \E r \in Codes : Issue(r) \/ Guess(r) \/ Use(r) \/ Open(r)

Spec == Init /\ [][Next]_vars
=============================================================================
