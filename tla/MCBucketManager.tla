--------------------------- MODULE MCBucketManager --------------------------
(***************************************************************************)
(* Three levels, an entry r that is never changed, one that is written by  *)
(* most ledgers, one that comes and goes, and one that is gone for good    *)
(* before the last level gets its first entries.                           *)
(***************************************************************************)
EXTENDS BucketApply

C(live, dead) == [live |-> live, dead |-> dead]

MCChanges ==
    [l \in 2..MaxLedger |->
        CASE l = 2     -> {C({"x", "y", "z"}, {})}
          [] l = 3     -> {C({"y"}, {"z"})}
          [] l = 5     -> {C({"y"}, {"x"})}
          [] l = 11    -> {C({"x", "y"}, {})}
          [] l = 18    -> {C({"y"}, {"x"})}
          [] l = 23    -> {C({"y"}, {}), C({"x", "y"}, {})}
          [] l % 4 = 0 -> {C({}, {})}
          [] OTHER     -> {C({"y"}, {})}]
=============================================================================
