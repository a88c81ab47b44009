--------------------------- MODULE MCInstallation ---------------------------
(***************************************************************************)
(* A small installation for TLC: its founder and one more account, one     *)
(* company of two people with an application of one credential, and one    *)
(* entry as support.  Two addresses, so that they meet.                    *)
(***************************************************************************)
EXTENDS Installation, TLC

CONSTANTS root, vice, ana, bea, x, y, h1, h2

ASSUME FounderAssumption /\ LivesAssumption /\ NothingAssumption

MCSymmetry == Permutations(People) \cup Permutations(Hands)

\* An entry as support and an application read nothing of each other, and are not
\* there together.  Two requests are under way together when they are about
\* accounts and people, while nobody is in as support and no account has been
\* inactive for a while.  Whatever comes of them, any other may follow.
UnderWay == {h \in Hands : hand[h] # Idle}
AboutAddresses == {"account", "password", "deactivate", "leave"} \cup Joining
Inside == {e \in Entries : entry[e] # Nothing}
OverlapBound ==
    /\ Inside # {} => app = Nothing
    /\ Cardinality(UnderWay) > 1 =>
        /\ \A h \in UnderWay : hand[h].kind \in AboutAddresses
        /\ Inside = {} /\ \A a \in Accounts : idle[a] = 0
=============================================================================
