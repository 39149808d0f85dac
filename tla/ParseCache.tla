----------------------------- MODULE ParseCache -----------------------------
(***************************************************************************)
(* The parse states that plans keep of dbt, one file and one checksum for  *)
(* each fingerprint of the project and each target.  Any number of         *)
(* commands plan at the same time, the lock of the parsing cache between   *)
(* them; each may be killed anywhere, and clean --all removes files        *)
(* without that lock, under one that the plan command does not take.       *)
(*                                                                         *)
(* A file is the number of the dbt invocation that wrote it; a file that   *)
(* is being written, or whose writer was killed, is Torn, a checksum       *)
(* Broken.  The checksum of a file is written as the file itself.          *)
(***************************************************************************)
EXTENDS Naturals

CONSTANTS
    Plans,      \* the commands that plan
    Key,        \* the fingerprints
    Absent, Torn, Broken, NoPlan,
    MaxParses   \* how often dbt parses

ASSUME ParseCacheAssumption ==
    /\ {Absent, Torn, Broken} \cap Nat = {}
    /\ Absent # Torn /\ Absent # Broken /\ Torn # Broken
    /\ NoPlan \notin Plans
    /\ MaxParses \in Nat

Slot == Key \X {"production", "local"}
File == 1..MaxParses \cup {Absent, Torn}

VARIABLES
    parsing,    \* who holds parsing.lock
    slot,       \* the fingerprint each plan computed, and the target it resolves
    at,         \* where each plan is
    target,     \* the parse state in its target directory
    cached,     \* per fingerprint and target, the cached file
    checksum,   \* and its checksum
    digest,     \* the checksum each plan computed
    parses      \* the dbt invocations so far

cache == <<parsing, slot, at, target, cached, checksum, digest, parses>>

CacheFrom(keys) ==
    /\ parsing = NoPlan
    /\ slot = [p \in Plans |-> <<keys[p], "production">>]
    /\ at = [p \in Plans |-> "start"]
    /\ target = [p \in Plans |-> Absent]
    /\ cached = [c \in Slot |-> Absent]
    /\ checksum = [c \in Slot |-> Absent]
    /\ digest = [p \in Plans |-> Absent]
    /\ parses = 0

CacheInit == \E keys \in [Plans -> Key] : CacheFrom(keys)

Move(p, before, after) == at[p] = before /\ at' = [at EXCEPT ![p] = after]

\* Faulty variant: nobody waits for the lock.
LockNothing(p) ==
    /\ Move(p, "start", "locked")
    /\ UNCHANGED <<parsing, slot, target, cached, checksum, digest, parses>>

Lock(p) ==
    /\ parsing = NoPlan
    /\ Move(p, "start", "locked")
    /\ parsing' = p
    /\ UNCHANGED <<slot, target, cached, checksum, digest, parses>>

\* Faulty variant: the checksum is not compared.
MatchIfThere(c) == cached[c] # Absent /\ checksum[c] # Absent

Matches(c) == cached[c] # Absent /\ checksum[c] = cached[c]

Check(p) ==
    /\ Move(p, "locked", IF Matches(slot[p]) THEN "matched" ELSE "restored")
    /\ UNCHANGED <<parsing, slot, target, cached, checksum, digest, parses>>

\* A copy of what is there now.
Restore(p) ==
    /\ cached[slot[p]] # Absent
    /\ Move(p, "matched", "restored")
    /\ target' = [target EXCEPT ![p] = cached[slot[p]]]
    /\ UNCHANGED <<parsing, slot, cached, checksum, digest, parses>>

\* dbt ls, or parse, leaves its own parse state.
Parse(p) ==
    /\ parses < MaxParses
    /\ Move(p, "restored", "parsed")
    /\ parses' = parses + 1
    /\ target' = [target EXCEPT ![p] = parses']
    /\ UNCHANGED <<parsing, slot, cached, checksum, digest>>

\* The copy overwrites the cached file in place.
StartStore(p) ==
    /\ Move(p, "parsed", "storing")
    /\ cached' = [cached EXCEPT ![slot[p]] = Torn]
    /\ UNCHANGED <<parsing, slot, target, checksum, digest, parses>>

\* Unless clean has removed the file, which the copy then completes for nobody.
Store(p) ==
    /\ Move(p, "storing", "stored")
    /\ cached' = [cached EXCEPT ![slot[p]] = IF @ = Absent THEN Absent ELSE target[p]]
    /\ UNCHANGED <<parsing, slot, target, checksum, digest, parses>>

\* The checksum is computed from the cached file, and written in place as well.
StartChecksum(p) ==
    /\ cached[slot[p]] # Absent
    /\ Move(p, "stored", "summing")
    /\ digest' = [digest EXCEPT ![p] = cached[slot[p]]]
    /\ checksum' = [checksum EXCEPT ![slot[p]] = Broken]
    /\ UNCHANGED <<parsing, slot, target, cached, parses>>

WriteChecksum(p) ==
    /\ Move(p, "summing", "end")
    /\ checksum' = [checksum EXCEPT ![slot[p]] = IF @ = Absent THEN Absent ELSE digest[p]]
    /\ UNCHANGED <<parsing, slot, target, cached, digest, parses>>

\* The local target, in a target directory of its own.
NextTarget(p) ==
    /\ slot[p][2] = "production"
    /\ Move(p, "end", "locked")
    /\ slot' = [slot EXCEPT ![p] = <<@[1], "local">>]
    /\ target' = [target EXCEPT ![p] = Absent]
    /\ UNCHANGED <<parsing, cached, checksum, digest, parses>>

\* The plan returns, raises, or is killed, and its lock is free.
End(p) ==
    /\ at[p] # "over"
    /\ at' = [at EXCEPT ![p] = "over"]
    /\ parsing' = IF parsing = p THEN NoPlan ELSE parsing
    /\ UNCHANGED <<slot, target, cached, checksum, digest, parses>>

\* clean --all, one file at a time.
Clean(c) ==
    /\ \/ cached[c] # Absent /\ cached' = [cached EXCEPT ![c] = Absent] /\ UNCHANGED checksum
       \/ checksum[c] # Absent /\ checksum' = [checksum EXCEPT ![c] = Absent] /\ UNCHANGED cached
    /\ UNCHANGED <<parsing, slot, at, target, digest, parses>>

CacheNext ==
    \/ \E p \in Plans :
        \/ Lock(p) \/ Check(p) \/ Restore(p) \/ Parse(p)
        \/ StartStore(p) \/ Store(p) \/ StartChecksum(p) \/ WriteChecksum(p)
        \/ NextTarget(p) \/ End(p)
    \/ \E c \in Slot : Clean(c)

CacheSpec == CacheInit /\ [][CacheNext]_cache

-----------------------------------------------------------------------------

\* What a plan restores is a parse state that dbt finished writing and that was copied as a
\* whole, wherever an earlier plan was killed and whatever clean took away: the copy of the
\* file and its checksum are two writes, either of which may be torn.
RestoredIsWhole == \A p \in Plans : target[p] # Torn
=============================================================================
