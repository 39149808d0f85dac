--------------------------- MODULE ParseCacheProofs ---------------------------
(***************************************************************************)
(* No plan restores a torn parse state, for any number of plans,           *)
(* fingerprints and dbt invocations.                                       *)
(***************************************************************************)
EXTENDS ParseCache, TLAPS

USE ParseCacheAssumption DEF Slot, File

Step == {"start", "locked", "matched", "restored", "parsed", "storing", "stored", "summing",
         "end", "over"}

CacheTyped ==
    /\ parsing \in Plans \cup {NoPlan}
    /\ slot \in [Plans -> Slot]
    /\ at \in [Plans -> Step]
    /\ target \in [Plans -> File]
    /\ cached \in [Slot -> File]
    /\ checksum \in [Slot -> File \cup {Broken}]
    /\ digest \in [Plans -> File]
    /\ parses \in 0..MaxParses

\* One plan at a time is past the lock.
Exclusive == \A p \in Plans : at[p] \notin {"start", "over"} => parsing = p

\* A file may be torn, but never the one that the lock's holder is about to copy or has just
\* written, and no checksum is ever computed from one.
NothingTorn ==
    /\ \A c \in Slot : checksum[c] # Torn
    /\ \A p \in Plans :
        /\ at[p] \in {"matched", "stored"} => cached[slot[p]] # Torn
        /\ digest[p] # Torn
        /\ target[p] # Torn

CacheInv == CacheTyped /\ Exclusive /\ NothingTorn

LEMMA InitCacheInv == CacheInit => CacheInv
<1> SUFFICES ASSUME NEW keys \in [Plans -> Key], CacheFrom(keys) PROVE CacheInv
  BY DEF CacheInit
<1>1. CacheTyped
  BY DEF CacheTyped, CacheFrom, Step
<1>2. Exclusive /\ NothingTorn
  BY <1>1 DEF CacheTyped, CacheFrom, Exclusive, NothingTorn
<1> QED
  BY <1>1, <1>2 DEF CacheInv

\* The steps of a plan: what it does to the files it does as the only holder of the lock.
LEMMA PlanCacheInv ==
    ASSUME CacheInv, NEW p \in Plans,
           \/ Lock(p) \/ Check(p) \/ Restore(p) \/ Parse(p) \/ StartStore(p) \/ Store(p)
           \/ StartChecksum(p) \/ WriteChecksum(p) \/ NextTarget(p) \/ End(p)
    PROVE  CacheInv'
<1> USE DEF CacheInv, CacheTyped, Step, Move
<1>1. CASE Lock(p)
  BY <1>1 DEF Lock, Exclusive, NothingTorn
<1>2. CASE Check(p)
  <2>1. Matches(slot[p]) => cached[slot[p]] # Torn
    BY DEF Matches, NothingTorn
  <2> QED
    BY <1>2, <2>1 DEF Check, Exclusive, NothingTorn
<1>3. CASE Restore(p)
  BY <1>3 DEF Restore, Exclusive, NothingTorn
<1>4. CASE Parse(p)
  <2>1. parses' \in 1..MaxParses /\ parses' # Torn
    BY <1>4 DEF Parse
  <2> QED
    BY <1>4, <2>1 DEF Parse, Exclusive, NothingTorn
<1>5. CASE StartStore(p)
  BY <1>5 DEF StartStore, Exclusive, NothingTorn
<1>6. CASE Store(p)
  BY <1>6 DEF Store, Exclusive, NothingTorn
<1>7. CASE StartChecksum(p)
  BY <1>7 DEF StartChecksum, Exclusive, NothingTorn
<1>8. CASE WriteChecksum(p)
  BY <1>8 DEF WriteChecksum, Exclusive, NothingTorn
<1>9. CASE NextTarget(p)
  BY <1>9 DEF NextTarget, Exclusive, NothingTorn
<1>10. CASE End(p)
  BY <1>10 DEF End, Exclusive, NothingTorn
<1> QED
  BY <1>1, <1>2, <1>3, <1>4, <1>5, <1>6, <1>7, <1>8, <1>9, <1>10

\* What clean removes is absent, not torn.
LEMMA CleanCacheInv == ASSUME CacheInv, NEW c \in Slot, Clean(c) PROVE CacheInv'
  BY DEF CacheInv, CacheTyped, Step, Clean, Exclusive, NothingTorn

LEMMA NextCacheInv == CacheInv /\ [CacheNext]_cache => CacheInv'
<1> SUFFICES ASSUME CacheInv, [CacheNext]_cache PROVE CacheInv'
  OBVIOUS
<1>1. CASE UNCHANGED cache
  BY <1>1 DEF cache, CacheInv, CacheTyped, Exclusive, NothingTorn
<1> QED
  BY <1>1, PlanCacheInv, CleanCacheInv DEF CacheNext

\* However plans and clean interleave, and wherever plans are killed, a plan hands dbt a parse
\* state that dbt finished writing and that was copied as a whole (planner.py, _resolve_target).
THEOREM OnlyWholeRestored == CacheSpec => []RestoredIsWhole
<1>1. CacheInv => RestoredIsWhole
  BY DEF CacheInv, NothingTorn, RestoredIsWhole
<1> QED
  BY <1>1, InitCacheInv, NextCacheInv, PTL DEF CacheSpec
=============================================================================
