------------------------ MODULE MCBookingTransactions ------------------------
(* Small instances of BookingTransactions for TLC.                         *)
EXTENDS BookingAgreement, TLC

CONSTANTS t1, t2, t3, b1, b2, b3, s1, s2, s3, p1, p2, c1, c2

TwoParents == s1 :> p1 @@ s2 :> p2
OneFamily == s1 :> p1 @@ s2 :> p1
TwoFamilies == s1 :> p1 @@ s2 :> p1 @@ s3 :> p2

OneSeat == [c \in Classes |-> 1]
NoAllowance == [c \in Classes |-> 0]
OneExtra == [c \in Classes |-> 1]

Symmetry == Permutations(Tx) \union Permutations(Bookings)
=============================================================================
