----------------------------- MODULE SecretBook -----------------------------
(* What secretsMu makes of the two secrets files: books in which the secret   *)
(* of one login is entered or struck out at a time, all others staying as     *)
(* they are.  Only in a mishap, a crash or a file that cannot be read or      *)
(* written, may a book go blank, or blank but for the login being entered.    *)
EXTENDS Naturals

CONSTANTS Books, Owners, LoginOf, SecretOf

VARIABLES
  book,   \* of each book, the secret of each login, or ""
  mishaps \* how many there have been

Blank == [l \in {LoginOf[s] : s \in Owners} |-> ""]

Init == book = [f \in Books |-> Blank] /\ mishaps = 0

Enters(f, s, secret) == book' = [book EXCEPT ![f] = [@ EXCEPT ![LoginOf[s]] = secret]]
Record(f, s) == Enters(f, s, SecretOf[s])
Strike(f, s) == Enters(f, s, "")

Tear(f)       == book' = [book EXCEPT ![f] = Blank]
Misread(f, s) == book' = [book EXCEPT ![f] = [Blank EXCEPT ![LoginOf[s]] = SecretOf[s]]]
Mishap ==
  /\ mishaps' = mishaps + 1
  /\ \/ UNCHANGED book
     \/ \E f \in Books : Tear(f) \/ \E s \in Owners : Misread(f, s)

Next ==
  \/ Mishap
  \/ UNCHANGED mishaps /\ \E f \in Books, s \in Owners : Record(f, s) \/ Strike(f, s)

Spec == Init /\ [][Next]_<<book, mishaps>>
=============================================================================
