-------------------------- MODULE AuthStorageProofs --------------------------
(***************************************************************************)
(* Proofs about AuthStorage: refreshes exclude each other, saved changes   *)
(* and usable tokens stay in the file, and a file that cannot be parsed is *)
(* not written over.                                                       *)
(*                                                                         *)
(* The inductive invariant says what a refresh may rely on while it waits: *)
(* unless a lock was taken over, the credentials it read are still those   *)
(* of the file, if a set() meets its lock (CallInv).  It follows the tokens through every copy of the *)
(* credentials, the one in the file and those the refreshes took: a login  *)
(* belongs to one provider (LoginInv), no copy is ahead of the provider,   *)
(* and the one answer that is not saved yet is ahead of every copy         *)
(* (TokenInv).                                                             *)
(***************************************************************************)
EXTENDS AuthStorage, TLAPS

USE DEF vars, Providers, Logins, Credential, NoCredential, Empty, Holding, Orphaned,
        Readable

CallRecord == [at : {"idle", "locking", "refreshing", "answered", "failed"},
               provider : Providers, current : [Providers -> Credential],
               compromised : {"no", "unnoticed", "noticed"}]

-----------------------------------------------------------------------------
\* The inductive invariant

\* A call that holds the lock and did not lose it works on what is in the file.
CallInv(c) ==
    /\ calls[c].at # "idle" => calls[c].provider \in OAuth
    /\ calls[c].compromised # "no" => Holding(c)
    /\ Holding(c) /\ lock = c => calls[c].compromised = "no"
    /\ takeovers = 0 /\ Holding(c) => lock = c
    /\ takeovers = 0 /\ Holding(c) /\ ~Symlinked => Readable /\ calls[c].current = file

LockInv == TypeOK /\ (\A c \in Calls : CallInv(c)) /\ ReleasedWhenOver

\* A new call, and one that has ended, is a call record.
LEMMA NoWorkType == NoWork \in CallRecord /\ NoWork.at = "idle" /\ NoWork.compromised = "no"
                    /\ NoWork.current = [p \in Providers |-> NoCredential]
<1>1. PICK q \in Providers : TRUE  BY AuthAssumption
<1>2. (CHOOSE p \in Providers : TRUE) \in Providers  BY <1>1
<1>3. 0 \in Logins  BY AuthAssumption
<1> QED  BY <1>2, <1>3 DEF NoWork, CallRecord

LEMMA InitLock == Init => LockInv
<1> SUFFICES ASSUME Init PROVE LockInv  OBVIOUS
<1> USE NoWorkType, AuthAssumption DEF Init
<1>1. TypeOK
  <2>1. Empty \in [Providers -> Credential]  OBVIOUS
  <2>2. calls \in [Calls -> CallRecord]  OBVIOUS
  <2>3. home \in [Calls -> Instances] /\ valid \in [Logins -> Nat] /\ logins \in Logins
        /\ kept \in [Providers -> Logins] /\ expired \subseteq Credential
    OBVIOUS
  <2>4. file \in [Providers -> Credential] /\ data \in [Instances -> [Providers -> Credential]]
    BY <2>1
  <2>5. lock \in Calls \union {NoCall} /\ {failures, crashes, takeovers} \subseteq Nat
    OBVIOUS
  <2>6. loadError \in [Instances -> BOOLEAN] /\ answerLost \in BOOLEAN /\ left \in BOOLEAN
    BY Zenon
  <2> HIDE DEF Init
  <2> QED  BY <2>2, <2>3, <2>4, <2>5, <2>6 DEF TypeOK, CallRecord
<1>2. \A c \in Calls : CallInv(c)  BY DEF CallInv
<1>3. ReleasedWhenOver  BY DEF ReleasedWhenOver
<1> QED  BY <1>1, <1>2, <1>3 DEF LockInv

-----------------------------------------------------------------------------
\* What the operations keep of the lock

\* Clients' changes and the fallback take the lock the same way: from nobody, from
\* a dead process, or from a holder they count as a takeover.
Marked(c, rec) ==
    \/ calls'[c] = rec
    \/ /\ Holding(c) /\ takeovers' = takeovers + 1
       /\ calls'[c] = [calls[c] EXCEPT !.compromised = "unnoticed"]

LEMMA LockTaken ==
    ASSUME LockInv, NEW others \in [Calls -> CallRecord],
           \A c \in Calls : others[c] = calls[c] \/ (others[c] = NoWork /\ ~Holding(c)),
           TakeLock(others) \/ LockRefused(others)
    PROVE  /\ calls' \in [Calls -> CallRecord]
           /\ lock' \in Calls \union {NoCall} /\ takeovers' \in Nat
           /\ \A c \in Calls : Marked(c, others[c])
           /\ \A c \in Calls : Holding(c) /\ lock' = c => lock = c /\ calls'[c] = calls[c]
           /\ takeovers' = takeovers \/ takeovers' = takeovers + 1
           /\ takeovers' = 0 /\ TakeLock(others)
                => (Symlinked /\ lock' = lock) \/ \A c \in Calls : ~Holding(c)
           /\ lock' # NoCall => lock' = lock
           /\ left' \in BOOLEAN
<1>a. /\ calls \in [Calls -> CallRecord] /\ lock \in Calls \union {NoCall}
      /\ takeovers \in Nat /\ NoCall \notin Calls /\ left \in BOOLEAN
  BY AuthAssumption DEF LockInv, TypeOK, CallRecord
<1>b. \A c \in Calls : takeovers = 0 /\ Holding(c) => lock = c
  BY DEF LockInv, CallInv
<1>c. \A c \in Calls : Holding(c) => others[c] = calls[c]
  OBVIOUS
<1> HIDE DEF Holding
<1>1. CASE LockRefused(others)
  <2>1. /\ lock' = lock /\ left' = left /\ calls' = others /\ takeovers' = takeovers
        /\ left \/ (~Symlinked /\ lock # NoCall)
    BY <1>1 DEF LockRefused
  <2>2. ASSUME TakeLock(others) PROVE FALSE
    BY <2>1, <2>2, <1>a DEF TakeLock
  <2> QED  BY <2>1, <2>2, <1>a, <1>c DEF Marked
<1>4. CASE TakeLock(others) /\ Symlinked /\ calls' = others /\ UNCHANGED <<lock, takeovers>>
  <2>1. left' = FALSE  BY <1>4 DEF TakeLock
  <2> QED  BY <1>4, <2>1, <1>a, <1>c DEF Marked
<1>2. CASE TakeLock(others) /\ (lock = NoCall \/ Orphaned) /\ calls' = others
           /\ UNCHANGED takeovers /\ ~Symlinked
  <2>1. lock' = NoCall /\ left' = FALSE  BY <1>2 DEF TakeLock
  <2>2. takeovers = 0 => \A c \in Calls : ~Holding(c)  BY <1>2, <1>a, <1>b
  <2> QED  BY <1>2, <2>1, <2>2, <1>a DEF Marked
<1>3. CASE TakeLock(others) /\ lock # NoCall /\ Holding(lock) /\ takeovers' = takeovers + 1
           /\ calls' = [others EXCEPT ![lock].compromised = "unnoticed"] /\ lock' = NoCall
  <2>1. lock' = NoCall /\ lock \in Calls /\ left' = FALSE  BY <1>3, <1>a DEF TakeLock
  <2>2. others[lock] = calls[lock] /\ calls[lock] \in CallRecord
    BY <1>3, <2>1, <1>a, <1>c
  <2>3. calls' \in [Calls -> CallRecord]  BY <1>3, <2>1 DEF CallRecord
  <2>4. takeovers' \in Nat /\ takeovers' # 0 BY <1>3, <1>a
  <2>5. \A c \in Calls : calls'[c] = IF c = lock THEN [calls[c] EXCEPT !.compromised = "unnoticed"]
                                     ELSE others[c]
    BY <1>3, <2>1, <2>2
  <2> QED  BY <1>3, <2>1, <2>2, <2>3, <2>4, <2>5, <1>a DEF Marked
<1> QED  BY <1>1, <1>2, <1>3, <1>4 DEF TakeLock

LEMMA TakenOrRefused ==
    ASSUME TypeOK, NEW others PROVE ~(TakeLock(others) /\ LockRefused(others))
<1>1. left \in BOOLEAN  BY DEF TypeOK
<1> QED  BY <1>1 DEF TakeLock, LockRefused

\* A write that was cut leaves a file of the same type.
LEMMA CutTypes ==
    ASSUME TypeOK, WriteCut
    PROVE  /\ file' \in [Providers -> Credential] \union {Torn}
           /\ kept' \in [Providers -> Logins]
<1>1. 0 \in Logins  BY AuthAssumption
<1>2. /\ file \in [Providers -> Credential] \union {Torn} /\ kept \in [Providers -> Logins]
  BY DEF TypeOK
<1>3. Empty \in [Providers -> Credential]  BY <1>1
<1>4. [p \in Providers |-> 0] \in [Providers -> Logins]  BY <1>1
<1> QED  BY <1>2, <1>3, <1>4 DEF WriteCut

LEMMA SetLock ==
    ASSUME LockInv, NEW i \in Instances, NEW p \in Providers, Set(i, p) \/ Remove(i, p)
    PROVE  LockInv'
<1>0. TypeOK /\ calls \in [Calls -> CallRecord] /\ NoCall \notin Calls
  BY AuthAssumption DEF LockInv, TypeOK, CallRecord
<1>1. PICK cred \in Credential : Persist(i, p, cred) /\ data' = [data EXCEPT ![i][p] = cred]
                                 /\ logins' \in Logins
  <2>1. CASE Set(i, p)
    <3>1. [login |-> logins + 1, gen |-> 0] \in Credential /\ logins + 1 \in Logins
      BY <1>0, <2>1, AuthAssumption DEF Set, TypeOK
    <3> QED  BY <2>1, <3>1 DEF Set
  <2>2. CASE Remove(i, p)
    <3>1. NoCredential \in Credential  BY AuthAssumption
    <3> QED  BY <1>0, <2>2, <3>1 DEF Remove, TypeOK
  <2> QED  BY <2>1, <2>2
<1>2. UNCHANGED <<loadError, home, valid, expired, crashes, answerLost>>
  BY DEF Set, Remove
<1>3. CASE UNCHANGED <<file, lock, left, calls, takeovers, kept, failures>>
  <2>1. TypeOK'  BY <1>0, <1>1, <1>2, <1>3 DEF TypeOK
  <2>2. \A c \in Calls : CallInv(c)'  BY <1>3 DEF LockInv, CallInv
  <2>3. ReleasedWhenOver'  BY <1>2, <1>3 DEF LockInv, ReleasedWhenOver
  <2> QED  BY <2>1, <2>2, <2>3 DEF LockInv
<1>4. CASE TakeLock(calls) \/ LockRefused(calls)
  <2>1. /\ calls' \in [Calls -> CallRecord]
        /\ lock' \in Calls \union {NoCall} /\ takeovers' \in Nat
        /\ \A c \in Calls : Marked(c, calls[c])
        /\ \A c \in Calls : Holding(c) /\ lock' = c => lock = c /\ calls'[c] = calls[c]
        /\ takeovers' = takeovers \/ takeovers' = takeovers + 1
        /\ takeovers' = 0 /\ TakeLock(calls)
             => (Symlinked /\ lock' = lock) \/ \A c \in Calls : ~Holding(c)
        /\ lock' # NoCall => lock' = lock
        /\ left' \in BOOLEAN
    BY <1>0, <1>4, LockTaken
  <2>2. /\ file' \in [Providers -> Credential] \union {Torn} /\ kept' \in [Providers -> Logins]
        /\ LockRefused(calls) => file' = file
        /\ failures' \in Nat
    <3>1. CASE LockRefused(calls) /\ UNCHANGED <<file, kept, failures>>
      BY <1>0, <3>1 DEF TypeOK
    <3>5. CASE UNCHANGED <<file, lock, left, calls, takeovers, kept, failures>>
      BY <1>0, <3>5 DEF TypeOK
    <3>2. CASE TakeLock(calls) /\ file' = Merged(i, p, cred) /\ Readable
               /\ kept' = [kept EXCEPT ![p] = cred.login] /\ UNCHANGED failures
      <4>1. ~LockRefused(calls)  BY <1>0, <3>2, TakenOrRefused
      <4>2. file' \in [Providers -> Credential]  BY <1>0, <3>2 DEF TypeOK, Merged
      <4>3. cred.login \in Logins  OBVIOUS
      <4>4. kept' \in [Providers -> Logins]  BY <1>0, <3>2, <4>3 DEF TypeOK
      <4>5. failures' \in Nat  BY <1>0, <3>2 DEF TypeOK
      <4> QED  BY <4>1, <4>2, <4>4, <4>5
    <3>3. CASE TakeLock(calls) /\ UNCHANGED <<file, kept, failures>>
      BY <1>0, <3>3 DEF TypeOK
    <3>4. CASE TakeLock(calls) /\ WriteCut /\ failures' = failures + 1
      <4>1. ~LockRefused(calls)  BY <1>0, <3>4, TakenOrRefused
      <4>3. failures \in Nat  BY <1>0 DEF TypeOK
      <4>2. failures' \in Nat  BY <3>4, <4>3
      <4> QED  BY <1>0, <3>4, <4>1, <4>2, CutTypes
    <3> QED  BY <1>1, <1>4, <3>1, <3>2, <3>3, <3>4, <3>5, Zenon DEF Persist
  <2>3. data' \in [Instances -> [Providers -> Credential]]
    BY <1>0, <1>1 DEF TypeOK
  <2>4. TypeOK'  BY <1>0, <1>1, <1>2, <2>1, <2>2, <2>3 DEF TypeOK, CallRecord
  <2>5. ASSUME NEW c \in Calls PROVE CallInv(c)'
    <3>1. calls[c] \in CallRecord /\ CallInv(c) /\ takeovers \in Nat
      BY <1>0 DEF LockInv, TypeOK
    <3>2. calls'[c] = calls[c]
          \/ (Holding(c) /\ calls'[c] = [calls[c] EXCEPT !.compromised = "unnoticed"])
      BY <2>1 DEF Marked
    <3>3. calls'[c].at = calls[c].at /\ calls'[c].provider = calls[c].provider
          /\ calls'[c].current = calls[c].current
      BY <3>1, <3>2 DEF CallRecord
    <3>4. takeovers' = 0 /\ Holding(c)
            => (LockRefused(calls) \/ Symlinked) /\ takeovers = 0 /\ lock' = lock
      BY <1>4, <2>1, <3>1 DEF LockRefused
    <3> QED  BY <2>1, <2>2, <3>1, <3>2, <3>3, <3>4 DEF CallInv
  <2>6. ReleasedWhenOver'
    <3>1. ASSUME crashes' = 0, lock' # NoCall PROVE calls'[lock'].at = calls[lock].at /\ Holding(lock)
      <4>1. lock' = lock /\ lock \in Calls /\ calls[lock] \in CallRecord
        BY <1>0, <2>1, <3>1 DEF TypeOK
      <4>2. Holding(lock)  BY <1>2, <3>1, <4>1 DEF LockInv, ReleasedWhenOver
      <4> QED  BY <2>1, <4>1, <4>2 DEF Marked
    <3> QED  BY <3>1 DEF ReleasedWhenOver
  <2> QED  BY <2>4, <2>5, <2>6 DEF LockInv
<1> QED  BY <1>1, <1>3, <1>4, Zenon DEF Persist

LEMMA GetApiKeyLock ==
    ASSUME LockInv, NEW c \in Calls, NEW p \in OAuth, GetApiKey(c, p)
    PROVE  LockInv'
<1> USE DEF GetApiKey
<1>1. calls[c].at = "idle" /\ calls[c] \in CallRecord /\ OAuth \subseteq Providers
  BY DEF LockInv, TypeOK, CallRecord
<1>2. /\ calls' \in [Calls -> CallRecord]
      /\ \A d \in Calls : calls'[d] = IF d = c THEN [calls[c] EXCEPT !.at = "locking", !.provider = p]
                                      ELSE calls[d]
  BY <1>1 DEF LockInv, TypeOK, CallRecord
<1>3. TypeOK'  BY <1>2 DEF LockInv, TypeOK, CallRecord
<1>4. \A d \in Calls : CallInv(d)'  BY <1>1, <1>2 DEF LockInv, CallInv, CallRecord
<1>5. ReleasedWhenOver'  BY <1>1, <1>2 DEF LockInv, TypeOK, ReleasedWhenOver
<1> QED  BY <1>3, <1>4, <1>5 DEF LockInv

LEMMA AcquireLock ==
    ASSUME LockInv, NEW c \in Calls, Acquire(c)
    PROVE  LockInv'
<1>1. /\ calls[c].at = "locking" /\ calls[c] \in CallRecord /\ calls[c].compromised = "no"
      /\ lock = NoCall \/ Orphaned
      /\ home[c] \in Instances /\ CallInv(c) /\ NoCall \notin Calls
  BY AuthAssumption DEF LockInv, TypeOK, CallInv, CallRecord, Acquire
<1>2. PICK rec \in CallRecord :
        /\ calls' = [calls EXCEPT ![c] = rec]
        /\ rec.compromised = "no" /\ (rec.at = "idle" \/ rec.provider = calls[c].provider)
        /\ \/ rec.at \notin {"refreshing", "answered"} /\ lock' = NoCall
           \/ rec.at = "refreshing" /\ rec.current = file /\ lock' = c /\ file # Torn
  <2>1. CASE ~Readable
    <3>1. [calls[c] EXCEPT !.at = "failed"] \in CallRecord  BY <1>1 DEF CallRecord
    <3> QED  BY <1>1, <2>1, <3>1 DEF Acquire, CallRecord
  <2>2. CASE Readable /\ lock' = c
    <3>1. [calls[c] EXCEPT !.at = "refreshing", !.current = file] \in CallRecord
      BY <1>1, <2>2 DEF LockInv, TypeOK, CallRecord
    <3>2. calls' = [calls EXCEPT ![c] = [calls[c] EXCEPT !.at = "refreshing", !.current = file]]
      BY <1>1, <2>2 DEF Acquire
    <3> QED  BY <1>1, <2>2, <3>1, <3>2 DEF CallRecord
  <2>3. CASE Readable /\ lock' = NoCall /\ calls' = [calls EXCEPT ![c] = NoWork]
    BY <1>1, <2>3, NoWorkType
  <2> QED  BY <1>1, <2>1, <2>2, <2>3 DEF Acquire
<1>3. /\ calls' \in [Calls -> CallRecord]
      /\ \A d \in Calls : calls'[d] = IF d = c THEN rec ELSE calls[d]
  BY <1>2 DEF LockInv, TypeOK, CallRecord
<1>4. TypeOK'
  <2>1. /\ data' \in [Instances -> [Providers -> Credential]]
        /\ loadError' \in [Instances -> BOOLEAN]
    BY <1>1 DEF LockInv, TypeOK, Acquire
  <2>2. left' = LeftApart  BY DEF Acquire
  <2>3. left' \in BOOLEAN  BY <2>2 DEF LeftApart
  <2> QED  BY <1>2, <1>3, <2>1, <2>3 DEF LockInv, TypeOK, CallRecord, Acquire
<1>5. \A d \in Calls : CallInv(d)'
  <2>1. file' = file /\ takeovers' = takeovers  BY DEF Acquire
  <2>2. \A d \in Calls : takeovers = 0 => ~Holding(d)  BY <1>1 DEF LockInv, CallInv
  <2> QED  BY <1>1, <1>2, <1>3, <2>1, <2>2 DEF LockInv, CallInv
<1>6. ReleasedWhenOver'  BY <1>2, <1>3 DEF ReleasedWhenOver
<1> QED  BY <1>4, <1>5, <1>6 DEF LockInv

\* A call that is not inside gives up, or one that is inside stops.
LEMMA LeaveLock ==
    ASSUME LockInv, NEW c \in Calls,
           \/ LockTimesOut(c) \/ ProviderRefuses(c) \/ RequestFails(c) \/ SaveRefreshed(c)
           \/ SaveFails(c)
    PROVE  LockInv'
<1> USE DEF KeepAnswer
<1>1. /\ calls[c] \in CallRecord /\ CallInv(c) /\ NoCall \notin Calls /\ home[c] \in Instances
  BY AuthAssumption DEF LockInv, TypeOK, CallRecord
<1>2. PICK rec \in CallRecord :
        /\ calls' = [calls EXCEPT ![c] = rec]
        /\ rec.compromised = "no" /\ rec.at \in {"idle", "failed"}
        /\ (rec.at = "idle" \/ (calls[c].at # "idle" /\ rec.provider = calls[c].provider))
  BY <1>1, NoWorkType
     DEF CallInv, CallRecord, LockTimesOut, ProviderRefuses, RequestFails, SaveRefreshed, SaveFails
<1>3. \/ ~Holding(c) /\ lock' = lock /\ file' = file
      \/ Holding(c) /\ Release(c)
  BY DEF LockTimesOut, ProviderRefuses, RequestFails, SaveRefreshed, SaveFails
<1>4. takeovers' = takeovers /\ crashes' = crashes
  BY DEF LockTimesOut, ProviderRefuses, RequestFails, SaveRefreshed, SaveFails
<1>5. /\ calls' \in [Calls -> CallRecord]
      /\ \A d \in Calls : calls'[d] = IF d = c THEN rec ELSE calls[d]
  BY <1>2 DEF LockInv, TypeOK, CallRecord
<1>6. TypeOK'
  <2>1. ASSUME SaveRefreshed(c) \/ SaveFails(c)
        PROVE  /\ file' \in [Providers -> Credential] \union {Torn}
               /\ data' \in [Instances -> [Providers -> Credential]]
               /\ loadError' \in [Instances -> BOOLEAN]
    <3> DEFINE merged == Answered(c)
    <3>1. merged \in [Providers -> Credential]
      BY <1>1 DEF CallRecord, Answered, Refreshed
    <3> HIDE DEF merged
    <3>2. /\ data' = [data EXCEPT ![home[c]] = merged]
          /\ loadError' = [loadError EXCEPT ![home[c]] = FALSE]
          /\ file' = file \/ file' = merged \/ file' = Empty \/ file' = Torn
      BY <2>1 DEF SaveRefreshed, SaveFails, WriteCut, merged
    <3>7. Empty \in [Providers -> Credential]  BY AuthAssumption
    <3>3. loadError' \in [Instances -> BOOLEAN]
      <4>1. loadError \in [Instances -> BOOLEAN]  BY DEF LockInv, TypeOK
      <4>2. loadError' = [loadError EXCEPT ![home[c]] = FALSE]  BY <3>2
      <4>3. [loadError EXCEPT ![home[c]] = FALSE] \in [Instances -> BOOLEAN]  BY <4>1
      <4> QED  BY <4>2, <4>3, Zenon
    <3>4. /\ file \in [Providers -> Credential] \union {Torn}
          /\ data \in [Instances -> [Providers -> Credential]]
      BY DEF LockInv, TypeOK
    <3>5. file' \in [Providers -> Credential] \union {Torn}  BY <3>1, <3>2, <3>4, <3>7
    <3>6. data' \in [Instances -> [Providers -> Credential]]  BY <3>1, <3>2, <3>4
    <3> QED  BY <3>3, <3>5, <3>6
  <2>2. ASSUME ~SaveRefreshed(c), ~SaveFails(c)
        PROVE  UNCHANGED <<file, data, loadError>>
    BY <2>2 DEF LockTimesOut, ProviderRefuses, RequestFails
  <2>3. /\ lock' = lock \/ lock' = NoCall
        /\ UNCHANGED <<home, valid, expired, logins, crashes, takeovers>>
        /\ failures' = failures \/ failures' = failures + 1
        /\ kept' = kept \/ WriteCut
        /\ left' = left \/ left' = LeftApart
    BY DEF LockTimesOut, ProviderRefuses, RequestFails, SaveRefreshed, SaveFails, Release
  <2>4. answerLost' \in BOOLEAN
    <3>1. answerLost \in BOOLEAN  BY DEF LockInv, TypeOK
    <3>2. (answerLost \/ calls[c].at = "answered") \in BOOLEAN  OBVIOUS
    <3>3. \/ answerLost' = answerLost \/ answerLost' = TRUE
          \/ answerLost' = (answerLost \/ calls[c].at = "answered")
      BY DEF LockTimesOut, ProviderRefuses, RequestFails, SaveRefreshed, SaveFails
    <3> QED  BY <3>1, <3>2, <3>3, Zenon
  <2>8. left' \in BOOLEAN
    <3>1. left \in BOOLEAN /\ LeftApart \in BOOLEAN  BY DEF LockInv, TypeOK, LeftApart
    <3> QED  BY <2>3, <3>1, Zenon
  <2>9. kept' \in [Providers -> Logins]
    BY <2>3, CutTypes DEF LockInv, TypeOK
  <2>5. /\ file' \in [Providers -> Credential] \union {Torn}
        /\ data' \in [Instances -> [Providers -> Credential]]
        /\ loadError' \in [Instances -> BOOLEAN]
    BY <2>1, <2>2 DEF LockInv, TypeOK
  <2>6. lock' \in Calls \union {NoCall} /\ {failures', crashes', takeovers'} \subseteq Nat
    BY <2>3 DEF LockInv, TypeOK
  <2>7. /\ home' \in [Calls -> Instances] /\ valid' \in [Logins -> Nat]
        /\ expired' \subseteq Credential /\ logins' \in Logins
    BY <2>3 DEF LockInv, TypeOK
  <2> QED  BY <1>5, <2>4, <2>5, <2>6, <2>7, <2>8, <2>9 DEF TypeOK, CallRecord
<1>7. \A d \in Calls : CallInv(d)'
  <2>1. ASSUME NEW d \in Calls, d # c PROVE CallInv(d)'
    <3>1. calls'[d] = calls[d] /\ CallInv(d)  BY <1>5, <2>1 DEF LockInv
    <3>2. lock' = d => lock = d  BY <1>1, <1>3 DEF Release
    <3>3. takeovers = 0 /\ Holding(d) => lock' = d /\ file' = file
      <4>1. takeovers = 0 /\ Holding(d) => ~Holding(c)
        BY <1>1, <2>1, <3>1 DEF CallInv
      <4> QED  BY <1>3, <4>1, <3>1 DEF CallInv
    <3> QED  BY <1>4, <3>1, <3>2, <3>3 DEF CallInv
  <2>2. CallInv(c)'  BY <1>1, <1>2, <1>5 DEF CallInv
  <2> QED  BY <2>1, <2>2
<1>8. ReleasedWhenOver'
  <2>1. ASSUME lock' # NoCall, crashes = 0 PROVE lock' # c /\ lock' = lock /\ Holding(lock)
    BY <1>1, <1>3, <2>1 DEF LockInv, ReleasedWhenOver, Release, CallInv
  <2> QED  BY <1>4, <1>5, <2>1 DEF LockInv, TypeOK, ReleasedWhenOver
<1> QED  BY <1>6, <1>7, <1>8 DEF LockInv

LEMMA AnswerLock ==
    ASSUME LockInv, NEW c \in Calls, ProviderAnswers(c)
    PROVE  LockInv'
<1> USE DEF ProviderAnswers
<1>1. calls[c].at = "refreshing" /\ calls[c] \in CallRecord
  BY DEF LockInv, TypeOK, CallRecord
<1>2. /\ calls' \in [Calls -> CallRecord]
      /\ \A d \in Calls : calls'[d] = IF d = c THEN [calls[c] EXCEPT !.at = "answered"]
                                      ELSE calls[d]
  BY <1>1 DEF LockInv, TypeOK, CallRecord
<1>3. valid' \in [Logins -> Nat]
  <2>1. valid \in [Logins -> Nat] /\ calls[c].current[calls[c].provider].login \in Logins
    BY <1>1 DEF LockInv, TypeOK, CallRecord
  <2>2. PICK n \in Logins : valid' = [valid EXCEPT ![n] = valid[n] + 1]
    BY <2>1, Zenon
  <2> HIDE DEF ProviderAnswers
  <2>3. valid[n] + 1 \in Nat  BY <2>1
  <2> QED  BY <2>1, <2>2, <2>3
<1>4. TypeOK'  BY <1>2, <1>3 DEF LockInv, TypeOK, CallRecord
<1>5. \A d \in Calls : CallInv(d)'  BY <1>1, <1>2 DEF LockInv, CallInv, CallRecord
<1>6. ReleasedWhenOver'  BY <1>1, <1>2 DEF LockInv, TypeOK, ReleasedWhenOver, CallRecord
<1> QED  BY <1>4, <1>5, <1>6 DEF LockInv

LEMMA NoticeLock ==
    ASSUME LockInv, NEW c \in Calls, NoticeCompromised(c)
    PROVE  LockInv'
<1> USE DEF NoticeCompromised
<1>1. calls[c] \in CallRecord  BY DEF LockInv, TypeOK, CallRecord
<1>2. /\ calls' \in [Calls -> CallRecord]
      /\ \A d \in Calls : calls'[d] = IF d = c THEN [calls[c] EXCEPT !.compromised = "noticed"]
                                      ELSE calls[d]
  BY <1>1 DEF LockInv, TypeOK, CallRecord
<1>3. TypeOK'  BY <1>2 DEF LockInv, TypeOK, CallRecord
<1>4. \A d \in Calls : CallInv(d)'  BY <1>1, <1>2 DEF LockInv, CallInv, CallRecord
<1>5. ReleasedWhenOver'  BY <1>1, <1>2 DEF LockInv, TypeOK, ReleasedWhenOver, CallRecord
<1> QED  BY <1>3, <1>4, <1>5 DEF LockInv

LEMMA ExpireLock ==
    ASSUME LockInv, Expire
    PROVE  LockInv'
<1>1. /\ expired' \subseteq Credential
      /\ UNCHANGED <<file, lock, left, data, loadError, calls, home, valid, logins, failures,
                     crashes, takeovers, kept, answerLost>>
  BY DEF Expire, LockInv, TypeOK
<1>2. TypeOK'  BY <1>1 DEF LockInv, TypeOK
<1>3. \A d \in Calls : CallInv(d)'  BY <1>1 DEF LockInv, CallInv
<1>4. ReleasedWhenOver'  BY <1>1 DEF LockInv, ReleasedWhenOver
<1> QED  BY <1>2, <1>3, <1>4 DEF LockInv

LEMMA FallBackLock ==
    ASSUME LockInv, NEW c \in Calls, FallBack(c)
    PROVE  LockInv'
<1> DEFINE others == [calls EXCEPT ![c] = NoWork]
<1>1. /\ calls \in [Calls -> CallRecord] /\ NoCall \notin Calls /\ home[c] \in Instances
      /\ calls[c].at = "failed"
  BY AuthAssumption DEF LockInv, TypeOK, CallRecord, FallBack
<1>2. others \in [Calls -> CallRecord]  BY <1>1, NoWorkType
<1>3. \A d \in Calls : others[d] = IF d = c THEN NoWork ELSE calls[d]  BY <1>1
<1>4. TakeLock(others) \/ LockRefused(others)  BY DEF FallBack, Reload
<1>5. UNCHANGED <<file, home, valid, expired, logins, failures, crashes, kept, answerLost>>
  BY DEF FallBack
<1> HIDE DEF others
<1>6. /\ calls' \in [Calls -> CallRecord]
      /\ lock' \in Calls \union {NoCall} /\ takeovers' \in Nat
      /\ \A d \in Calls : Marked(d, others[d])
      /\ \A d \in Calls : Holding(d) /\ lock' = d => lock = d /\ calls'[d] = calls[d]
      /\ takeovers' = takeovers \/ takeovers' = takeovers + 1
      /\ takeovers' = 0 /\ TakeLock(others)
           => (Symlinked /\ lock' = lock) \/ \A d \in Calls : ~Holding(d)
      /\ lock' # NoCall => lock' = lock
      /\ left' \in BOOLEAN
  BY <1>1, <1>2, <1>3, <1>4, LockTaken
<1>7. TypeOK'
  <2>1. data' \in [Instances -> [Providers -> Credential]]
    BY <1>1 DEF FallBack, Reload, LockInv, TypeOK
  <2>2. loadError' \in [Instances -> BOOLEAN]
    <3>1. loadError \in [Instances -> BOOLEAN]  BY DEF LockInv, TypeOK
    <3>2. (~Readable) \in BOOLEAN  OBVIOUS
    <3>3. loadError' = [loadError EXCEPT ![home[c]] = TRUE]
          \/ loadError' = [loadError EXCEPT ![home[c]] = ~Readable]
      BY DEF FallBack, Reload
    <3>4. [loadError EXCEPT ![home[c]] = TRUE] \in [Instances -> BOOLEAN]  BY <3>1
    <3>5. [loadError EXCEPT ![home[c]] = ~Readable] \in [Instances -> BOOLEAN]
      BY <3>1, <3>2
    <3> QED  BY <3>3, <3>4, <3>5, Zenon
  <2>3. {failures', crashes', takeovers'} \subseteq Nat
    BY <1>5, <1>6 DEF LockInv, TypeOK
  <2> QED  BY <1>5, <1>6, <2>1, <2>2, <2>3 DEF LockInv, TypeOK, CallRecord
<1>8. ASSUME NEW d \in Calls PROVE CallInv(d)'
  <2>1. CASE d = c
    BY <1>1, <1>3, <1>6, <2>1, NoWorkType DEF CallInv, Marked
  <2>2. CASE d # c
    <3>1. calls[d] \in CallRecord /\ CallInv(d) /\ takeovers \in Nat
      BY <1>1 DEF LockInv, TypeOK
    <3>2. calls'[d] = calls[d]
          \/ (Holding(d) /\ calls'[d] = [calls[d] EXCEPT !.compromised = "unnoticed"])
      BY <1>3, <1>6, <2>2 DEF Marked
    <3>3. calls'[d].at = calls[d].at /\ calls'[d].provider = calls[d].provider
          /\ calls'[d].current = calls[d].current
      BY <3>1, <3>2 DEF CallRecord
    <3>4. takeovers' = 0 /\ Holding(d) => takeovers = 0 /\ lock' = lock
      BY <1>4, <1>6, <3>1 DEF LockRefused
    <3> QED  BY <1>5, <1>6, <3>1, <3>2, <3>3, <3>4 DEF CallInv
  <2> QED  BY <2>1, <2>2
<1>9. ReleasedWhenOver'
  <2>1. ASSUME crashes' = 0, lock' # NoCall PROVE calls'[lock'].at = calls[lock].at /\ Holding(lock)
    <3>1. lock' = lock /\ lock \in Calls /\ calls[lock] \in CallRecord
      BY <1>1, <1>6, <2>1 DEF LockInv, TypeOK
    <3>2. Holding(lock)  BY <1>5, <2>1, <3>1 DEF LockInv, ReleasedWhenOver
    <3> QED  BY <1>1, <1>3, <1>6, <3>1, <3>2 DEF Marked
  <2> QED  BY <2>1 DEF ReleasedWhenOver
<1> QED  BY <1>7, <1>8, <1>9 DEF LockInv

LEMMA CrashLock ==
    ASSUME LockInv, NEW i \in Instances, Crash(i)
    PROVE  LockInv'
<1> DEFINE mine == {c \in Calls : home[c] = i}
<1>1. calls \in [Calls -> CallRecord] /\ 0 \in Logins /\ NoCall \notin Calls
  <2>1. NoCall \notin Calls /\ 0 \in Logins  BY AuthAssumption
  <2>2. calls \in [Calls -> CallRecord]  BY DEF LockInv, TypeOK, CallRecord
  <2> QED  BY <2>1, <2>2
<1>2. PICK leaves \in {left, left \/ LockFree(i)}, taken \in BOOLEAN :
        /\ IF taken THEN LockFree(i) ELSE leaves \/ (~Symlinked /\ lock # NoCall)
        /\ left' = (leaves /\ ~taken)
        /\ lock' = IF taken /\ ~Symlinked THEN NoCall ELSE lock
        /\ loadError' = [loadError EXCEPT ![i] = ~taken \/ file' = Torn]
        /\ data' = [data EXCEPT ![i] = IF taken /\ file' # Torn THEN file' ELSE Empty]
  BY DEF Crash, Restart
<1>3. /\ crashes' = crashes + 1
      /\ calls' = [c \in Calls |-> IF c \in mine THEN NoWork ELSE calls[c]]
      /\ IF Writing(i) THEN WriteCut ELSE UNCHANGED <<file, kept>>
      /\ UNCHANGED <<home, valid, expired, logins, failures, takeovers>>
  BY DEF Crash
<1>4. /\ calls' \in [Calls -> CallRecord]
      /\ \A c \in Calls : calls'[c] = IF c \in mine THEN NoWork ELSE calls[c]
  <2>1. \A c \in Calls : (IF c \in mine THEN NoWork ELSE calls[c]) \in CallRecord
    BY <1>1, NoWorkType
  <2> HIDE DEF mine
  <2> QED  BY <1>3, <2>1
<1>5. TypeOK'
  <2>1. Empty \in [Providers -> Credential]  BY <1>1
  <2>2. /\ file' \in [Providers -> Credential] \union {Torn}
        /\ kept' \in [Providers -> Logins]
    BY <1>3, CutTypes DEF LockInv, TypeOK
  <2>3. data' \in [Instances -> [Providers -> Credential]]
    BY <1>2, <2>1, <2>2 DEF LockInv, TypeOK
  <2>4. loadError' \in [Instances -> BOOLEAN]
    <3>1. loadError \in [Instances -> BOOLEAN]  BY DEF LockInv, TypeOK
    <3>2. (~taken \/ file' = Torn) \in BOOLEAN  OBVIOUS
    <3>3. [loadError EXCEPT ![i] = ~taken \/ file' = Torn] \in [Instances -> BOOLEAN]
      BY <3>1, <3>2
    <3> QED  BY <1>2, <3>3, Zenon
  <2>8. left' \in BOOLEAN
    <3>1. (leaves /\ ~taken) \in BOOLEAN  OBVIOUS
    <3> QED  BY <1>2, <3>1, Zenon
  <2>5. answerLost' \in BOOLEAN
    <3>1. answerLost' = (answerLost \/ \E c \in mine : calls[c].at = "answered")
      BY DEF Crash
    <3> QED  BY <3>1
  <2>6. lock' \in Calls \union {NoCall} /\ {failures', crashes', takeovers'} \subseteq Nat
    BY <1>2, <1>3 DEF LockInv, TypeOK
  <2>7. /\ home' \in [Calls -> Instances] /\ valid' \in [Logins -> Nat]
        /\ expired' \subseteq Credential /\ logins' \in Logins
    BY <1>3, <1>1 DEF LockInv, TypeOK
  <2> QED  BY <1>4, <2>2, <2>3, <2>4, <2>5, <2>6, <2>7, <2>8 DEF TypeOK, CallRecord
<1>6. ASSUME NEW c \in Calls PROVE CallInv(c)'
  <2>1. CASE c \in mine
    BY <1>4, <2>1, NoWorkType DEF CallInv
  <2>2. CASE c \notin mine
    <3>1. calls'[c] = calls[c] /\ CallInv(c) /\ c # NoCall
      BY <1>1, <1>4, <2>2 DEF LockInv
    <3>2. lock' = c => lock = c  BY <1>2, <3>1
    <3>3. takeovers = 0 /\ Holding(c) => lock' = lock /\ (Symlinked \/ file' = file)
      <4>1. ASSUME takeovers = 0, Holding(c)
            PROVE  lock = c /\ \A d \in Calls : Holding(d) => d = c
        BY <3>1, <4>1 DEF LockInv, CallInv
      <4>2. ASSUME takeovers = 0, Holding(c), ~Symlinked PROVE ~Writing(i) /\ ~LockFree(i)
        BY <2>2, <3>1, <4>1, <4>2 DEF Writing, LockFree
      <4> QED  BY <1>2, <1>3, <2>2, <3>1, <4>1, <4>2
    <3> QED  BY <1>3, <3>1, <3>2, <3>3 DEF CallInv
  <2> QED  BY <2>1, <2>2
<1>7. ReleasedWhenOver'
  <2>1. crashes' # 0  BY <1>3 DEF LockInv, TypeOK
  <2> QED  BY <2>1 DEF ReleasedWhenOver
<1> QED  BY <1>5, <1>6, <1>7 DEF LockInv

LEMMA LockInductive == LockInv /\ [Next]_vars => LockInv'
<1> SUFFICES ASSUME LockInv, [Next]_vars PROVE LockInv'
  OBVIOUS
<1>1. CASE UNCHANGED vars
  <2>1. TypeOK'  BY <1>1 DEF LockInv, TypeOK
  <2>2. \A c \in Calls : CallInv(c)'  BY <1>1 DEF LockInv, CallInv
  <2>3. ReleasedWhenOver'  BY <1>1 DEF LockInv, ReleasedWhenOver
  <2> QED  BY <2>1, <2>2, <2>3 DEF LockInv
<1>2. ASSUME NEW c \in Calls,
             CallStep(c) \/ RequestFails(c) \/ SaveFails(c) \/ NoticeCompromised(c)
      PROVE  LockInv'
  BY <1>2, AcquireLock, LeaveLock, AnswerLock, FallBackLock, NoticeLock DEF CallStep
<1>3. ASSUME NEW c \in Calls, NEW p \in OAuth, GetApiKey(c, p) PROVE LockInv'
  BY <1>3, GetApiKeyLock
<1>4. ASSUME NEW i \in Instances, NEW p \in Providers, Set(i, p) \/ Remove(i, p)
      PROVE  LockInv'
  BY <1>4, SetLock
<1>5. ASSUME NEW i \in Instances, Crash(i) PROVE LockInv'
  BY <1>5, CrashLock
<1>6. CASE Expire
  BY <1>6, ExpireLock
<1> QED  BY <1>1, <1>2, <1>3, <1>4, <1>5, <1>6 DEF Next

\* Two calls that hold the lock without a takeover are one call: it has the lock.
LEMMA LockInvImplies == LockInv => LockDiscipline
BY DEF LockInv, CallInv, LockDiscipline, RefreshIsExclusive

\* Refreshes of a token exclude each other as long as no lock is taken over, and
\* only a process that died leaves its lock behind (auth-storage.ts:397).
THEOREM RefreshesExclude == Spec => []LockDiscipline
<1>1. LockInv /\ [Next]_vars => LockInv'  BY LockInductive
<1>2. Init => LockInv  BY InitLock
<1>3. LockInv => LockDiscipline  BY LockInvImplies
<1> QED  BY <1>1, <1>2, <1>3, PTL DEF Spec

-----------------------------------------------------------------------------
\* The content of the file

\* What writes the file: a change of a client, a refresh, and a write that is cut,
\* which is under way only for a file that could be parsed.
LEMMA FileSteps ==
    ASSUME LockInv, [Next]_vars
    PROVE  \/ file' = file /\ kept' = kept /\ takeovers' \in Nat
              /\ (takeovers' = 0 => takeovers = 0)
           \/ \E i \in Instances, p \in Providers, cred \in Credential :
                 /\ Readable /\ file' = Merged(i, p, cred)
                 /\ kept' = [kept EXCEPT ![p] = cred.login]
                 /\ takeovers' = 0 => takeovers = 0
           \/ \E c \in Calls : SaveRefreshed(c)
           \/ /\ WriteCut /\ (takeovers' = 0 => takeovers = 0)
              /\ takeovers = 0 => Symlinked \/ Readable
<1> DEFINE Cut == /\ WriteCut /\ (takeovers' = 0 => takeovers = 0)
                  /\ takeovers = 0 => Symlinked \/ Readable
<1> DEFINE Unwritten == file' = file /\ kept' = kept /\ takeovers' \in Nat
                        /\ (takeovers' = 0 => takeovers = 0)
<1>0. takeovers \in Nat  BY DEF LockInv, TypeOK
<1>1. CASE UNCHANGED vars
  BY <1>0, <1>1
<1>2. ASSUME NEW others, TakeLock(others) \/ LockRefused(others)
      PROVE  takeovers' \in Nat /\ (takeovers' = 0 => takeovers = 0)
  BY <1>0, <1>2 DEF TakeLock, LockRefused
<1>3. ASSUME NEW c \in Calls,
             CallStep(c) \/ RequestFails(c) \/ SaveFails(c) \/ NoticeCompromised(c)
      PROVE  Unwritten \/ SaveRefreshed(c) \/ Cut
  <2>3. CASE SaveFails(c)
    <3>1. calls[c].at = "answered" /\ CallInv(c)  BY <2>3 DEF SaveFails, KeepAnswer, LockInv
    <3> QED  BY <2>3, <3>1 DEF SaveFails, KeepAnswer, CallInv
  <2>1. CASE FallBack(c)
    BY <1>2, <2>1 DEF FallBack, Reload
  <2>2. CASE ~FallBack(c) /\ ~SaveFails(c)
    BY <1>0, <1>3, <2>2
       DEF CallStep, Acquire, LockTimesOut, ProviderAnswers, ProviderRefuses, RequestFails,
           NoticeCompromised
  <2> QED  BY <2>1, <2>2, <2>3
<1>4. ASSUME NEW c \in Calls, NEW p \in OAuth, GetApiKey(c, p) PROVE Unwritten
  BY <1>0, <1>4 DEF GetApiKey
<1>5. ASSUME NEW i \in Instances, NEW p \in Providers, Set(i, p) \/ Remove(i, p)
      PROVE  \/ Unwritten \/ Cut
             \/ \E cred \in Credential :
                 /\ Readable /\ file' = Merged(i, p, cred)
                 /\ kept' = [kept EXCEPT ![p] = cred.login]
                 /\ takeovers' = 0 => takeovers = 0
  <2>1. PICK cred \in Credential : Persist(i, p, cred)
    <3>1. CASE Set(i, p)
      <4>1. [login |-> logins + 1, gen |-> 0] \in Credential
        BY <3>1, AuthAssumption DEF Set, LockInv, TypeOK
      <4> QED  BY <3>1, <4>1 DEF Set
    <3>2. CASE Remove(i, p)
      <4>1. NoCredential \in Credential  BY AuthAssumption
      <4> QED  BY <3>2, <4>1 DEF Remove
    <3> QED  BY <1>5, <3>1, <3>2
  <2>2. CASE UNCHANGED <<file, lock, left, calls, takeovers, kept, failures>>
    BY <1>0, <2>2
  <2>3. CASE LockRefused(calls) /\ UNCHANGED <<file, kept>>
    BY <1>2, <2>3
  <2>4. CASE TakeLock(calls) /\ Readable /\ file' = Merged(i, p, cred)
             /\ kept' = [kept EXCEPT ![p] = cred.login]
    BY <1>2, <2>4
  <2>5. CASE TakeLock(calls) /\ UNCHANGED <<file, kept>>
    BY <1>2, <2>5
  <2>6. CASE TakeLock(calls) /\ Readable /\ WriteCut
    BY <1>2, <2>6
  <2> QED  BY <2>1, <2>2, <2>3, <2>4, <2>5, <2>6 DEF Persist
<1>6. CASE Expire
  BY <1>0, <1>6 DEF Expire
<1>7. ASSUME NEW i \in Instances, Crash(i) PROVE Unwritten \/ Cut
  <2>1. takeovers' = takeovers /\ (IF Writing(i) THEN WriteCut ELSE UNCHANGED <<file, kept>>)
    BY <1>7 DEF Crash
  <2>2. Writing(i) /\ takeovers = 0 => Symlinked \/ Readable
    BY DEF Writing, LockInv, CallInv
  <2> QED  BY <1>0, <2>1, <2>2
<1> QED  BY <1>1, <1>3, <1>4, <1>5, <1>6, <1>7 DEF Next

\* What a call that did not lose its lock saves.
LEMMA SavedIsCurrent ==
    ASSUME LockInv, NEW c \in Calls, SaveRefreshed(c), takeovers = 0, ~Symlinked
    PROVE  /\ Readable /\ calls[c].current = file /\ calls[c].provider \in OAuth
           /\ file' = [file EXCEPT ![calls[c].provider] = Refreshed(@)]
           /\ kept' = kept /\ takeovers' = 0
<1>1. CallInv(c) /\ calls[c].at = "answered"  BY DEF LockInv, SaveRefreshed, KeepAnswer
<1>2. Readable /\ calls[c].current = file /\ calls[c].provider \in OAuth
      /\ calls[c].compromised = "no"
  BY <1>1 DEF CallInv
<1> QED  BY <1>2 DEF SaveRefreshed, KeepAnswer, Answered

LEMMA ChangesStep == ~Symlinked /\ LockInv /\ ChangesAreKept /\ [Next]_vars => ChangesAreKept'
<1> SUFFICES ASSUME ~Symlinked, LockInv, ChangesAreKept, [Next]_vars, Readable', takeovers' = 0
             PROVE  \A p \in Providers : file'[p].login = kept'[p]
  BY DEF ChangesAreKept
<1>0. /\ file \in [Providers -> Credential] \union {Torn} /\ kept \in [Providers -> Logins]
      /\ takeovers \in Nat
  BY DEF LockInv, TypeOK
<1>1. CASE file' = file /\ kept' = kept /\ (takeovers' = 0 => takeovers = 0)
  BY <1>1 DEF ChangesAreKept
<1>2. ASSUME NEW i \in Instances, NEW p \in Providers, NEW cred \in Credential,
             Readable, file' = Merged(i, p, cred), kept' = [kept EXCEPT ![p] = cred.login],
             takeovers' = 0 => takeovers = 0
      PROVE  \A q \in Providers : file'[q].login = kept'[q]
  BY <1>0, <1>2 DEF ChangesAreKept, Merged
<1>3. ASSUME NEW c \in Calls, SaveRefreshed(c)
      PROVE  \A q \in Providers : file'[q].login = kept'[q]
  <2>1. takeovers = 0  BY <1>3 DEF SaveRefreshed, KeepAnswer
  <2>2. /\ Readable /\ calls[c].provider \in OAuth /\ kept' = kept
        /\ file' = [file EXCEPT ![calls[c].provider] = Refreshed(@)]
    BY <1>3, <2>1, SavedIsCurrent
  <2>3. \A q \in Providers : file'[q].login = file[q].login
    BY <1>0, <2>2 DEF Refreshed
  <2> QED  BY <2>1, <2>2, <2>3 DEF ChangesAreKept
<1>4. CASE WriteCut /\ takeovers = 0
  <2>1. CASE file' = Empty /\ file # Empty
    BY <1>4, <2>1 DEF WriteCut
  <2>2. CASE file' = file
    BY <1>4, <2>2 DEF ChangesAreKept, WriteCut
  <2> QED  BY <1>4, <2>1, <2>2 DEF WriteCut
<1> QED  BY <1>1, <1>2, <1>3, <1>4, FileSteps

\* A file that cannot be parsed is written by nobody: a refresh holds the lock of a
\* file it could parse, and the other changes parse it first (auth-storage.ts:270).
\* A file that is reached through a link is excepted, which a set() may cut while
\* a refresh goes on.
THEOREM UnreadableUntouched == ~Symlinked => (Spec => UnreadableIsKept)
<1> SUFFICES ASSUME ~Symlinked PROVE Spec => UnreadableIsKept
  OBVIOUS
<1>1. LockInv /\ [Next]_vars => [takeovers = 0 /\ file = Torn => file' = Torn]_vars
  <2> SUFFICES ASSUME LockInv, [Next]_vars, takeovers = 0, file = Torn PROVE file' = Torn
    OBVIOUS
  <2>1. ASSUME NEW c \in Calls, SaveRefreshed(c) PROVE FALSE
    BY <2>1, SavedIsCurrent
  <2> QED  BY <2>1, FileSteps
<1>2. Init => LockInv  BY InitLock
<1>3. LockInv /\ [Next]_vars => LockInv'  BY LockInductive
<1> QED  BY <1>1, <1>2, <1>3, PTL DEF Spec, UnreadableIsKept

-----------------------------------------------------------------------------
\* The tokens

\* Every copy of the credentials that may still be written: the file, and what the
\* refreshes read.
Copies == {calls[c].current : c \in Calls} \union ({file} \ {Torn})

\* The credential a call refreshes.
Token(c) == calls[c].current[calls[c].provider]

\* A login is of one provider, and of the past.
LoginInv ==
    /\ \A s \in Copies, p \in Providers : s[p].login <= logins
    /\ \A s, t \in Copies, p, q \in Providers :
          s[p].login = t[q].login /\ s[p].login # 0 => p = q
    /\ \A e \in expired : e.login # 0
    /\ \A l \in Logins : l = 0 \/ logins < l => valid[l] = 0

\* The provider has rotated the token of call c, and no copy has the new one.
Ahead(c) ==
    /\ valid[Token(c).login] = Token(c).gen + 1
    /\ \A s \in Copies, p \in Providers :
          s[p].login = Token(c).login => s[p].gen <= Token(c).gen

\* No copy is ahead of the provider; an answer is for one call alone.
TokenInv ==
    /\ \A s \in Copies, p \in Providers : s[p].gen <= valid[s[p].login]
    /\ \A c \in Calls : Holding(c) => Token(c).login # 0
    /\ \A c \in Calls : calls[c].at = "answered" => Ahead(c)
    /\ \A c, d \in Calls :
          calls[c].at = "answered" /\ calls[d].at = "answered"
            /\ Token(c).login = Token(d).login => c = d

\* A token in the file that the provider does not accept is one that a call has the
\* answer for.
UsableInv ==
    NonePutBack /\ ~answerLost /\ Readable =>
        \A q \in OAuth :
            \/ file[q].gen = valid[file[q].login]
            \/ \E c \in Calls : /\ calls[c].at = "answered" /\ calls[c].provider = q
                                /\ calls[c].current[q] = file[q]

AuthInv == ~Symlinked /\ LockInv /\ ChangesAreKept /\ LoginInv /\ TokenInv /\ UsableInv

LEMMA Types ==
    ASSUME LockInv
    PROVE  /\ calls \in [Calls -> CallRecord] /\ logins \in Nat /\ takeovers \in Nat
           /\ file \in [Providers -> Credential] \union {Torn}
<1>1. calls \in [Calls -> CallRecord]  BY DEF LockInv, TypeOK, CallRecord
<1>2. logins \in Nat /\ takeovers \in Nat  BY DEF LockInv, TypeOK
<1>3. file \in [Providers -> Credential] \union {Torn}  BY DEF LockInv, TypeOK
<1> QED  BY <1>1, <1>2, <1>3

LEMMA CopiesType ==
    ASSUME LockInv
    PROVE  /\ Copies \subseteq [Providers -> Credential]
           /\ \A c \in Calls : calls[c].current \in Copies /\ Token(c) \in Credential
                               /\ calls[c].provider \in Providers
           /\ Readable => file \in Copies
<1>1. /\ calls \in [Calls -> CallRecord] /\ file \in [Providers -> Credential] \union {Torn}
  BY DEF LockInv, TypeOK, CallRecord
<1> QED  BY <1>1, ZenonT(60) DEF Copies, CallRecord, Token

LEMMA InitTokens == Init => LoginInv /\ TokenInv /\ UsableInv /\ ChangesAreKept
<1> SUFFICES ASSUME Init PROVE LoginInv /\ TokenInv /\ UsableInv /\ ChangesAreKept
  OBVIOUS
<1>1. \A s \in Copies : s = Empty  BY NoWorkType DEF Init, Copies
<1>2. \A c \in Calls : calls[c].at = "idle"  BY NoWorkType DEF Init
<1>3. /\ valid = [l \in Logins |-> 0] /\ expired = {} /\ logins = 0 /\ 0 \in Logins
      /\ file = Empty /\ kept = [p \in Providers |-> 0]
  BY AuthAssumption DEF Init
<1>4. LoginInv  BY <1>1, <1>3 DEF LoginInv
<1>5. TokenInv  BY <1>1, <1>2, <1>3 DEF TokenInv
<1>6. UsableInv  BY <1>3 DEF UsableInv
<1>7. ChangesAreKept  BY <1>3 DEF ChangesAreKept
<1> QED  BY <1>4, <1>5, <1>6, <1>7

\* What most steps do: no copy appears but an empty one, a call goes on, ends, or
\* acquires the lock for an expired token, and an answer is lost with its call.
SameCall(c) ==
    /\ calls'[c].at = calls[c].at
    /\ calls'[c].provider = calls[c].provider
    /\ calls'[c].current = calls[c].current

CallsCalm ==
    \A c \in Calls :
        \/ SameCall(c)
        \/ calls'[c].at \notin {"refreshing", "answered"}
        \/ calls'[c].at = "refreshing"
           /\ calls'[c].current[calls'[c].provider].login # 0

QuietStep ==
    /\ CallsCalm
    /\ Copies' \subseteq Copies \union {Empty}
    /\ valid' = valid
    /\ logins <= logins'
    /\ \A e \in expired' : e.login # 0
    /\ file' \in {file, Torn, Empty}
    /\ \A c \in Calls : calls[c].at = "answered" => SameCall(c) \/ answerLost'
    /\ answerLost => answerLost'
    /\ takeovers' = 0 => takeovers = 0

LEMMA QuietKeeps ==
    ASSUME LockInv, LockInv', LoginInv, TokenInv, QuietStep
    PROVE  LoginInv' /\ TokenInv'
<1>0. /\ valid \in [Logins -> Nat] /\ logins \in Logins /\ logins' \in Logins /\ 0 \in Logins
      /\ MaxLogins \in Nat
  BY AuthAssumption DEF LockInv, TypeOK
<1>1. \A s \in Copies : s \in [Providers -> Credential]  BY CopiesType
<1>2. \A s \in Copies' : s \in Copies \/ s = Empty  BY DEF QuietStep
<1>3. valid' = valid /\ valid[0] = 0 /\ logins <= logins'
  BY <1>0 DEF QuietStep, LoginInv
<1>4. \A p \in Providers : Empty[p] = NoCredential  OBVIOUS
<1>5. ASSUME NEW c \in Calls, calls'[c].at = "answered"
      PROVE  calls[c].at = "answered" /\ Token(c)' = Token(c) /\ Ahead(c)
  BY <1>5 DEF QuietStep, CallsCalm, SameCall, Token, TokenInv
<1>6. LoginInv'
  <2>1. \A s \in Copies', p \in Providers : s[p].login <= logins'
    BY <1>0, <1>1, <1>2, <1>3, <1>4 DEF LoginInv
  <2>2. \A s, t \in Copies', p, q \in Providers :
          s[p].login = t[q].login /\ s[p].login # 0 => p = q
    BY <1>2, <1>4 DEF LoginInv
  <2>3. \A l \in Logins : l = 0 \/ logins' < l => valid'[l] = 0
    BY <1>0, <1>3 DEF LoginInv
  <2> QED  BY <2>1, <2>2, <2>3 DEF LoginInv, QuietStep
<1>7. TokenInv'
  <2>1. \A s \in Copies', p \in Providers : s[p].gen <= valid'[s[p].login]
    BY <1>0, <1>1, <1>2, <1>3, <1>4 DEF TokenInv
  <2>2. ASSUME NEW c \in Calls, Holding(c)' PROVE Token(c)'.login # 0
    BY <2>2 DEF QuietStep, CallsCalm, SameCall, Token, TokenInv
  <2>3. ASSUME NEW c \in Calls, calls'[c].at = "answered" PROVE Ahead(c)'
    <3>1. calls[c].at = "answered" /\ Token(c)' = Token(c) /\ Ahead(c) /\ Token(c).login # 0
      BY <1>5, <2>3 DEF TokenInv
    <3>2. \A s \in Copies', p \in Providers :
            s[p].login = Token(c).login => s[p].gen <= Token(c).gen
      BY <1>2, <1>4, <3>1 DEF Ahead
    <3> QED  BY <1>3, <3>1, <3>2 DEF Ahead
  <2>4. ASSUME NEW c \in Calls, NEW d \in Calls, calls'[c].at = "answered",
               calls'[d].at = "answered", Token(c)'.login = Token(d)'.login
        PROVE  c = d
    BY <1>5, <2>4 DEF TokenInv
  <2> QED  BY <2>1, <2>2, <2>3, <2>4 DEF TokenInv
<1> QED  BY <1>6, <1>7

\* A change of a client writes the file with the credential of one provider changed:
\* to none, or to that of a new login.
WriteStep ==
    \E i \in Instances, p \in Providers, cred \in Credential :
        /\ Readable /\ file' = Merged(i, p, cred)
        /\ \/ cred = NoCredential /\ logins' = logins
           \/ cred = [login |-> logins + 1, gen |-> 0] /\ logins' = logins + 1
        /\ \A c \in Calls : SameCall(c)
        /\ UNCHANGED <<valid, expired, answerLost>>
        /\ takeovers' = 0 => takeovers = 0

LEMMA WriteKeeps ==
    ASSUME LockInv, LockInv', LoginInv, TokenInv, WriteStep
    PROVE  LoginInv' /\ TokenInv'
<1>0. /\ valid \in [Logins -> Nat] /\ logins \in Logins /\ logins' \in Logins /\ 0 \in Logins
      /\ MaxLogins \in Nat /\ file \in [Providers -> Credential] \union {Torn}
  <2>1. 0 \in Logins /\ MaxLogins \in Nat  BY AuthAssumption
  <2>2. logins' \in Logins  BY DEF LockInv, TypeOK
  <2>3. /\ valid \in [Logins -> Nat] /\ logins \in Logins
        /\ file \in [Providers -> Credential] \union {Torn}
    BY DEF LockInv, TypeOK
  <2> QED  BY <2>1, <2>2, <2>3
<1>1. PICK i \in Instances, p \in Providers, cred \in Credential :
        /\ Readable /\ file' = Merged(i, p, cred)
        /\ \/ cred = NoCredential /\ logins' = logins
           \/ cred = [login |-> logins + 1, gen |-> 0] /\ logins' = logins + 1
        /\ \A c \in Calls : SameCall(c)
        /\ UNCHANGED <<valid, expired, answerLost>>
  BY DEF WriteStep
<1> DEFINE new == file'
<1>2. /\ file \in Copies /\ \A s \in Copies : s \in [Providers -> Credential]
      /\ \A c \in Calls : Token(c) \in Credential /\ calls[c].current \in Copies
                          /\ calls[c].provider \in Providers
  BY <1>1, CopiesType
<1>3. /\ \A q \in Providers : new[q] = IF q = p THEN cred ELSE file[q]
      /\ new \in [Providers -> Credential]
  BY <1>0, <1>1 DEF Merged
<1>4. \A s \in Copies' : s \in Copies \/ s = new  BY <1>1 DEF Copies, SameCall
<1>5. \A c \in Calls : calls'[c].at = calls[c].at /\ Token(c)' = Token(c)
  BY <1>1 DEF SameCall, Token
<1>6. \/ cred.login = 0 /\ cred.gen = 0 /\ logins' = logins
      \/ cred.login = logins + 1 /\ cred.gen = 0 /\ logins' = logins + 1
  BY <1>1
<1>7. valid' = valid /\ expired' = expired /\ valid[cred.login] = 0 /\ cred.login \in Logins
  BY <1>0, <1>1, <1>6 DEF LoginInv
<1> HIDE DEF new
<1>8. LoginInv'
  <2>1. ASSUME NEW s \in Copies', NEW q \in Providers PROVE s[q].login <= logins'
    <3>1. CASE s \in Copies
      <4>1. s[q].login \in Nat /\ s[q].login <= logins
        BY <1>0, <1>2, <3>1 DEF LoginInv
      <4> QED  BY <1>0, <1>6, <4>1
    <3>2. CASE s = new
      <4>1. file[q].login \in Nat /\ file[q].login <= logins
        BY <1>0, <1>2 DEF LoginInv
      <4> QED  BY <1>0, <1>3, <1>6, <3>2, <4>1
    <3> QED  BY <1>4, <3>1, <3>2
  <2>2. ASSUME NEW s \in Copies, NEW q \in Providers, new[p].login = s[q].login,
               new[p].login # 0
        PROVE  FALSE
    BY <1>0, <1>2, <1>3, <1>6, <2>2, SMTT(20) DEF LoginInv
  <2>3. ASSUME NEW s \in Copies', NEW t \in Copies', NEW q \in Providers, NEW r \in Providers,
               s[q].login = t[r].login, s[q].login # 0
        PROVE  q = r
    <3> DEFINE Old(u, v) == u \in Copies \/ (u = new /\ v # p)
    <3>1. ASSUME Old(s, q), Old(t, r) PROVE q = r
      BY <1>2, <1>3, <2>3, <3>1 DEF LoginInv
    <3>2. ASSUME NEW u \in Copies', NEW v \in Providers, ~Old(u, v) PROVE u = new /\ v = p
      BY <1>4, <3>2
    <3>3. ASSUME NEW u \in Copies', NEW v \in Providers, Old(u, v), new[p].login = u[v].login,
                 new[p].login # 0
          PROVE  FALSE
      BY <1>2, <1>3, <2>2, <3>3
    <3> QED  BY <2>3, <3>1, <3>2, <3>3
  <2>4. \A l \in Logins : l = 0 \/ logins' < l => valid'[l] = 0
    BY <1>0, <1>6, <1>7 DEF LoginInv
  <2> QED  BY <1>7, <2>1, <2>3, <2>4 DEF LoginInv
<1>9. TokenInv'
  <2>1. ASSUME NEW s \in Copies', NEW q \in Providers PROVE s[q].gen <= valid'[s[q].login]
    <3>1. CASE s \in Copies
      BY <1>7, <3>1 DEF TokenInv
    <3>2. CASE s = new /\ q # p
      BY <1>2, <1>3, <1>7, <3>2 DEF TokenInv
    <3>3. CASE s = new /\ q = p
      BY <1>3, <1>6, <1>7, <3>3
    <3> QED  BY <1>4, <3>1, <3>2, <3>3
  <2>2. \A c \in Calls : Holding(c)' => Token(c)'.login # 0
    BY <1>5 DEF TokenInv
  <2>3. ASSUME NEW c \in Calls, calls'[c].at = "answered" PROVE Ahead(c)'
    <3>1. /\ Token(c)' = Token(c) /\ Ahead(c) /\ Token(c).login # 0
          /\ Token(c).login <= logins
      BY <1>2, <1>5, <2>3 DEF TokenInv, LoginInv, Token
    <3>2. ASSUME NEW s \in Copies', NEW q \in Providers, s[q].login = Token(c).login
          PROVE  s[q].gen <= Token(c).gen
      <4>1. CASE s \in Copies
        BY <3>1, <3>2, <4>1 DEF Ahead
      <4>2. CASE s = new /\ q # p
        BY <1>2, <1>3, <3>1, <3>2, <4>2 DEF Ahead
      <4>3. CASE s = new /\ q = p
        BY <1>0, <1>2, <1>3, <1>6, <3>1, <3>2, <4>3
      <4> QED  BY <1>4, <4>1, <4>2, <4>3
    <3> QED  BY <1>7, <3>1, <3>2 DEF Ahead
  <2>4. \A c, d \in Calls : calls'[c].at = "answered" /\ calls'[d].at = "answered"
            /\ Token(c)'.login = Token(d)'.login => c = d
    BY <1>5 DEF TokenInv
  <2> QED  BY <2>1, <2>2, <2>3, <2>4 DEF TokenInv
<1> QED  BY <1>8, <1>9

LEMMA AnswerKeeps ==
    ASSUME LockInv, LoginInv, TokenInv, NEW c \in Calls, ProviderAnswers(c)
    PROVE  LoginInv' /\ TokenInv'
<1>0. /\ valid \in [Logins -> Nat] /\ logins \in Logins /\ calls \in [Calls -> CallRecord]
      /\ MaxLogins \in Nat
  BY AuthAssumption DEF LockInv, TypeOK, CallRecord
<1>1. /\ calls[c].at = "refreshing" /\ Token(c).gen = valid[Token(c).login]
      /\ valid' = [valid EXCEPT ![Token(c).login] = @ + 1]
      /\ calls' = [calls EXCEPT ![c].at = "answered"]
      /\ UNCHANGED <<file, expired, logins>>
  BY DEF ProviderAnswers, Token
<1>2. \A d \in Calls : /\ calls'[d].at = IF d = c THEN "answered" ELSE calls[d].at
                       /\ calls'[d].provider = calls[d].provider
                       /\ calls'[d].current = calls[d].current
  BY <1>0, <1>1 DEF CallRecord
<1>3. Copies' = Copies  BY <1>1, <1>2 DEF Copies
<1>4. \A d \in Calls : Token(d)' = Token(d)  BY <1>2 DEF Token
<1>5. /\ \A s \in Copies : s \in [Providers -> Credential]
      /\ \A d \in Calls : Token(d) \in Credential /\ calls[d].current \in Copies
                          /\ calls[d].provider \in Providers
  BY CopiesType
<1>6. Token(c).login # 0 /\ Token(c).login <= logins
  BY <1>1, <1>5 DEF TokenInv, LoginInv, Token
<1>7. \A l \in Logins : valid'[l] = IF l = Token(c).login THEN valid[l] + 1 ELSE valid[l]
  BY <1>0, <1>1
<1>8. LoginInv'
  BY <1>0, <1>1, <1>3, <1>5, <1>6, <1>7 DEF LoginInv
<1>9. ASSUME NEW d \in Calls, calls[d].at = "answered" PROVE Token(d).login # Token(c).login
  <2>1. Ahead(d)  BY <1>9 DEF TokenInv
  <2>2. SUFFICES ASSUME Token(d).login = Token(c).login PROVE FALSE  OBVIOUS
  <2>3. Token(c).gen <= Token(d).gen  BY <1>5, <2>1, <2>2 DEF Ahead, Token
  <2>4. valid[Token(c).login] = Token(d).gen + 1  BY <2>1, <2>2 DEF Ahead
  <2> QED  BY <1>1, <1>5, <2>3, <2>4
<1>10. TokenInv'
  <2>1. ASSUME NEW s \in Copies', NEW q \in Providers PROVE s[q].gen <= valid'[s[q].login]
    <3>1. s[q].gen <= valid[s[q].login] /\ s[q] \in Credential
      BY <1>3, <1>5 DEF TokenInv
    <3> QED  BY <1>0, <1>7, <3>1
  <2>2. \A d \in Calls : Holding(d)' => Token(d)'.login # 0
    BY <1>2, <1>4, <1>6 DEF TokenInv
  <2>3. ASSUME NEW d \in Calls, calls'[d].at = "answered" PROVE Ahead(d)'
    <3>1. CASE d = c
      <4>1. \A s \in Copies, q \in Providers :
              s[q].login = Token(c).login => s[q].gen <= Token(c).gen
        BY <1>1 DEF TokenInv
      <4>2. valid'[Token(c).login] = Token(c).gen + 1  BY <1>1, <1>5, <1>7
      <4> QED  BY <1>3, <1>4, <3>1, <4>1, <4>2 DEF Ahead
    <3>2. CASE d # c
      <4>1. calls[d].at = "answered" /\ Ahead(d) /\ Token(d).login # Token(c).login
        BY <1>2, <1>9, <2>3, <3>2 DEF TokenInv
      <4> QED  BY <1>3, <1>4, <1>5, <1>7, <4>1 DEF Ahead
    <3> QED  BY <3>1, <3>2
  <2>4. \A d, e \in Calls : calls'[d].at = "answered" /\ calls'[e].at = "answered"
            /\ Token(d)'.login = Token(e)'.login => d = e
    BY <1>2, <1>4, <1>9 DEF TokenInv
  <2> QED  BY <2>1, <2>2, <2>3, <2>4 DEF TokenInv
<1> QED  BY <1>8, <1>10

\* A refresh that did not notice a takeover saves what it read, with its own token
\* replaced by the rotated one.
LEMMA SavedFile ==
    ASSUME LockInv, NEW c \in Calls, SaveRefreshed(c), calls[c].compromised # "noticed"
    PROVE  /\ calls[c].at = "answered" /\ calls' = [calls EXCEPT ![c] = NoWork]
           /\ file' \in [Providers -> Credential]
           /\ \A q \in Providers :
                 /\ file'[q].login = calls[c].current[q].login
                 /\ file'[q] = IF q = calls[c].provider
                               THEN [login |-> Token(c).login, gen |-> Token(c).gen + 1]
                               ELSE calls[c].current[q]
           /\ UNCHANGED <<valid, expired, logins, answerLost, takeovers>>
<1> DEFINE p == calls[c].provider
           merged == [calls[c].current EXCEPT ![p] = Refreshed(@)]
<1>1. /\ calls[c].at = "answered" /\ calls' = [calls EXCEPT ![c] = NoWork]
      /\ file' = merged
      /\ UNCHANGED <<valid, expired, logins, answerLost, takeovers>>
  BY DEF SaveRefreshed, KeepAnswer, Answered
<1>2. calls[c].current \in [Providers -> Credential] /\ p \in Providers
  BY DEF LockInv, TypeOK
<1>3. Refreshed(Token(c)) = [login |-> Token(c).login, gen |-> Token(c).gen + 1]
      /\ Refreshed(Token(c)) \in Credential
  BY <1>2, CopiesType DEF Refreshed
<1>4. \A q \in Providers : merged[q] = IF q = p THEN Refreshed(Token(c)) ELSE calls[c].current[q]
  BY <1>2 DEF Token
<1>5. merged \in [Providers -> Credential]  BY <1>2, <1>3 DEF Token
<1> HIDE DEF merged
<1>6. \A q \in Providers : merged[q].login = calls[c].current[q].login
  BY <1>2, <1>3, <1>4 DEF Token
<1> QED  BY <1>1, <1>3, <1>4, <1>5, <1>6

LEMMA SaveKeeps ==
    ASSUME LockInv, LoginInv, TokenInv, NEW c \in Calls, SaveRefreshed(c),
           calls[c].compromised # "noticed"
    PROVE  LoginInv' /\ TokenInv'
<1> DEFINE new == file'
           p == calls[c].provider
           cur == calls[c].current
<1>0. /\ valid \in [Logins -> Nat] /\ logins \in Logins /\ calls \in [Calls -> CallRecord]
  BY DEF LockInv, TypeOK, CallRecord
<1>1. /\ calls[c].at = "answered" /\ new \in [Providers -> Credential]
      /\ \A q \in Providers :
            /\ new[q].login = cur[q].login
            /\ new[q] = IF q = p THEN [login |-> Token(c).login, gen |-> Token(c).gen + 1]
                        ELSE cur[q]
      /\ UNCHANGED <<valid, expired, logins>>
  BY SavedFile
<1>2. /\ \A s \in Copies : s \in [Providers -> Credential]
      /\ \A d \in Calls : Token(d) \in Credential /\ calls[d].current \in Copies
                          /\ calls[d].provider \in Providers
  BY CopiesType
<1>3. \A d \in Calls : calls'[d] = IF d = c THEN NoWork ELSE calls[d]
  BY <1>0, SavedFile
<1>4. \A s \in Copies' : s \in Copies \/ s = Empty \/ s = new
  BY <1>3, NoWorkType, ZenonT(60) DEF Copies
<1>5. \A q \in Providers : Empty[q] = NoCredential  OBVIOUS
<1>6. ASSUME NEW d \in Calls, Holding(d)'
      PROVE  d # c /\ calls'[d] = calls[d] /\ Holding(d) /\ Token(d)' = Token(d)
  BY <1>3, <1>6, NoWorkType DEF Token
<1>7. Ahead(c) /\ valid[0] = 0 /\ Token(c).login # 0
  BY <1>0, <1>1, AuthAssumption DEF TokenInv, LoginInv
<1> HIDE DEF new
<1>8. LoginInv'
  <2> DEFINE Like(s, t) == \A q \in Providers : s[q].login = t[q].login \/ s[q].login = 0
  <2>1. ASSUME NEW s \in Copies' PROVE \E t \in Copies : Like(s, t)
    <3>1. CASE s \in Copies  BY <3>1
    <3>2. CASE s = Empty  BY <1>2, <1>5, <3>2
    <3>3. CASE s = new  BY <1>1, <1>2, <3>3
    <3> QED  BY <1>4, <3>1, <3>2, <3>3
  <2>2. ASSUME NEW s \in Copies', NEW q \in Providers PROVE s[q].login <= logins
    <3>1. PICK t \in Copies : Like(s, t)  BY <2>1
    <3> QED  BY <1>0, <3>1 DEF LoginInv
  <2>3. ASSUME NEW s \in Copies', NEW t \in Copies', NEW q \in Providers, NEW r \in Providers,
               s[q].login = t[r].login, s[q].login # 0
        PROVE  q = r
    <3>1. PICK u \in Copies : Like(s, u)  BY <2>1
    <3>2. PICK v \in Copies : Like(t, v)  BY <2>1
    <3>3. u[q].login = v[r].login /\ u[q].login # 0  BY <2>3, <3>1, <3>2
    <3> QED  BY <3>3 DEF LoginInv
  <2> QED  BY <1>1, <2>2, <2>3 DEF LoginInv
<1>9. TokenInv'
  <2>1. ASSUME NEW s \in Copies', NEW q \in Providers PROVE s[q].gen <= valid'[s[q].login]
    <3>1. CASE s \in Copies  BY <1>1, <3>1 DEF TokenInv
    <3>2. CASE s = Empty  BY <1>1, <1>5, <1>7, <3>2
    <3>3. CASE s = new /\ q # p  BY <1>1, <1>2, <3>3 DEF TokenInv
    <3>4. CASE s = new /\ q = p
      <4>1. new[p].login = Token(c).login /\ new[p].gen = Token(c).gen + 1
        BY <1>1, <1>2
      <4> QED  BY <1>1, <1>2, <1>7, <3>4, <4>1 DEF Ahead
    <3> QED  BY <1>4, <3>1, <3>2, <3>3, <3>4
  <2>2. \A d \in Calls : Holding(d)' => Token(d)'.login # 0
    BY <1>6 DEF TokenInv
  <2>3. ASSUME NEW d \in Calls, calls'[d].at = "answered" PROVE Ahead(d)'
    <3>1. /\ d # c /\ calls[d].at = "answered" /\ Token(d)' = Token(d)
      BY <1>6, <2>3
    <3>2. Ahead(d) /\ Token(d).login # 0 /\ Token(d).login # Token(c).login
      BY <1>1, <3>1 DEF TokenInv
    <3>3. ASSUME NEW s \in Copies', NEW q \in Providers, s[q].login = Token(d).login
          PROVE  s[q].gen <= Token(d).gen
      <4>1. CASE s \in Copies  BY <3>2, <3>3, <4>1 DEF Ahead
      <4>2. CASE s = Empty  BY <1>5, <3>2, <3>3, <4>2
      <4>3. CASE s = new /\ q # p  BY <1>1, <1>2, <3>2, <3>3, <4>3 DEF Ahead
      <4>4. CASE s = new /\ q = p  BY <1>1, <1>2, <3>2, <3>3, <4>4
      <4> QED  BY <1>4, <4>1, <4>2, <4>3, <4>4
    <3> QED  BY <1>1, <3>1, <3>2, <3>3 DEF Ahead
  <2>4. \A d, e \in Calls : calls'[d].at = "answered" /\ calls'[e].at = "answered"
            /\ Token(d)'.login = Token(e)'.login => d = e
    BY <1>6 DEF TokenInv
  <2> QED  BY <2>1, <2>2, <2>3, <2>4 DEF TokenInv
<1> QED  BY <1>8, <1>9

\* The lock operations of clients leave the calls as they are, but for the mark that
\* a takeover leaves.
LEMMA CallsAfterLock ==
    ASSUME LockInv, TakeLock(calls) \/ LockRefused(calls)
    PROVE  (\A c \in Calls : SameCall(c)) /\ (takeovers' = 0 => takeovers = 0)
<1>1. calls \in [Calls -> CallRecord] /\ takeovers \in Nat
  BY DEF LockInv, TypeOK, CallRecord
<1>2. (\A c \in Calls : Marked(c, calls[c]))
      /\ (takeovers' = takeovers \/ takeovers' = takeovers + 1)
  BY <1>1, LockTaken
<1>3. ASSUME NEW c \in Calls PROVE SameCall(c)
  <2>1. calls'[c] = calls[c] \/ calls'[c] = [calls[c] EXCEPT !.compromised = "unnoticed"]
    BY <1>2 DEF Marked
  <2>2. calls[c] \in CallRecord  BY <1>1
  <2> QED  BY <2>1, <2>2 DEF SameCall, CallRecord
<1> QED  BY <1>1, <1>2, <1>3

LEMMA ChangeTokens ==
    ASSUME LockInv, LoginInv, NEW i \in Instances, NEW p \in Providers,
           Set(i, p) \/ Remove(i, p)
    PROVE  QuietStep \/ WriteStep
<1>0. logins \in Nat /\ takeovers \in Nat  BY DEF LockInv, TypeOK
<1>1. PICK cred \in Credential :
        /\ Persist(i, p, cred)
        /\ \/ cred = NoCredential /\ logins' = logins
           \/ cred = [login |-> logins + 1, gen |-> 0] /\ logins' = logins + 1
        /\ UNCHANGED <<valid, expired, answerLost>>
  <2>1. CASE Set(i, p)
    <3>1. [login |-> logins + 1, gen |-> 0] \in Credential
      BY <2>1, AuthAssumption DEF Set, LockInv, TypeOK
    <3> QED  BY <2>1, <3>1 DEF Set
  <2>2. CASE Remove(i, p)
    <3>1. NoCredential \in Credential  BY AuthAssumption
    <3> QED  BY <2>2, <3>1 DEF Remove
  <2> QED  BY <2>1, <2>2
<1>2. logins <= logins'  BY <1>0, <1>1
<1>3. ASSUME \A c \in Calls : SameCall(c), file' \in {file, Torn, Empty},
             takeovers' = 0 => takeovers = 0
      PROVE  QuietStep
  <2>1. Copies' \subseteq Copies \union {Empty}  BY <1>3 DEF Copies, SameCall
  <2> QED  BY <1>1, <1>2, <1>3, <2>1 DEF QuietStep, CallsCalm, LoginInv
<1>4. CASE UNCHANGED <<file, lock, left, calls, takeovers, kept, failures>>
  <2>1. \A c \in Calls : SameCall(c)  BY <1>4 DEF SameCall
  <2> QED  BY <1>3, <1>4, <2>1
<1>5. CASE (LockRefused(calls) \/ TakeLock(calls)) /\ UNCHANGED <<file, kept>>
  BY <1>3, <1>5, CallsAfterLock
<1>6. CASE TakeLock(calls) /\ Readable /\ file' = Merged(i, p, cred)
  BY <1>1, <1>6, CallsAfterLock DEF WriteStep
<1>7. CASE TakeLock(calls) /\ WriteCut
  BY <1>3, <1>7, CallsAfterLock DEF WriteCut
<1> QED  BY <1>1, <1>4, <1>5, <1>6, <1>7 DEF Persist

LEMMA CallTokens ==
    ASSUME LockInv, LoginInv, NEW c \in Calls,
           \/ Acquire(c) \/ LockTimesOut(c) \/ ProviderRefuses(c) \/ RequestFails(c)
           \/ NoticeCompromised(c) \/ FallBack(c) \/ SaveFails(c)
           \/ SaveRefreshed(c) /\ calls[c].compromised = "noticed"
           \/ \E p \in OAuth : GetApiKey(c, p)
    PROVE  QuietStep
<1>0. /\ calls \in [Calls -> CallRecord] /\ logins \in Nat /\ takeovers \in Nat
      /\ file \in [Providers -> Credential] \union {Torn}
  BY Types
<1> DEFINE Ends(rec) == rec.at \notin {"refreshing", "answered"}
           Acquires(rec) == rec.at = "refreshing" /\ rec.current[rec.provider].login # 0
<1>1. ASSUME NEW rec, \A d \in Calls : d # c => SameCall(d), calls'[c] = rec,
             rec.current \in Copies \union {Empty},
             Ends(rec) \/ Acquires(rec) \/ SameCall(c),
             calls[c].at = "answered" => SameCall(c) \/ answerLost',
             file' \in {file, Torn, Empty},
             UNCHANGED <<valid, logins, expired>>, answerLost => answerLost',
             takeovers' = 0 => takeovers = 0
      PROVE  QuietStep
  <2>1. Copies' \subseteq Copies \union {Empty}
    BY <1>1 DEF Copies, SameCall
  <2>2. CallsCalm  BY <1>1 DEF CallsCalm
  <2>3. \A d \in Calls : calls[d].at = "answered" => SameCall(d) \/ answerLost'
    BY <1>1
  <2>4. \A e \in expired' : e.login # 0  BY <1>1 DEF LoginInv
  <2>5. logins <= logins' /\ file' \in {file, Torn, Empty}  BY <1>0, <1>1
  <2> QED  BY <1>1, <2>1, <2>2, <2>3, <2>4, <2>5 DEF QuietStep
<1>2. CASE Acquire(c) /\ calls' = [calls EXCEPT ![c].at = "refreshing", ![c].current = file]
  <2> DEFINE rec == [calls[c] EXCEPT !.at = "refreshing", !.current = file]
  <2>1. /\ calls[c] \in CallRecord /\ calls[c].at = "locking" /\ calls' = [calls EXCEPT ![c] = rec]
    BY <1>0, <1>2 DEF Acquire
  <2>2. rec.at = "refreshing" /\ rec.current = file /\ rec.provider = calls[c].provider
    BY <2>1 DEF CallRecord
  <2> HIDE DEF rec
  <2>3. Readable /\ file[calls[c].provider] \in expired
    <3>1. calls'[c] = rec  BY <1>0, <2>1
    <3>2. NoWork.at = "idle"  BY NoWorkType
    <3>3. CASE ~Readable
      <4>1. calls'[c].at = "failed"  BY <1>0, <1>2, <2>1, <3>3 DEF Acquire, CallRecord
      <4> QED  BY <2>2, <3>1, <4>1
    <3>4. CASE Readable /\ file[calls[c].provider] \notin expired
      <4>1. calls'[c] = NoWork  BY <1>0, <1>2, <3>4 DEF Acquire
      <4> QED  BY <2>2, <3>1, <3>2, <4>1
    <3> QED  BY <3>3, <3>4
  <2>4. Acquires(rec) /\ rec.current \in Copies
    BY <2>2, <2>3, CopiesType DEF LoginInv
  <2>5. (\A d \in Calls : d # c => SameCall(d)) /\ calls'[c] = rec
    BY <1>0, <2>1 DEF SameCall
  <2> QED  BY <1>1, <1>2, <2>1, <2>4, <2>5 DEF Acquire
<1>3. CASE calls' = [calls EXCEPT ![c] = NoWork] /\ Acquire(c)
  <2>1. (\A d \in Calls : d # c => SameCall(d)) /\ calls'[c] = NoWork
    BY <1>0, <1>3 DEF SameCall
  <2>2. NoWork.current = Empty /\ Ends(NoWork)  BY NoWorkType
  <2> QED  BY <1>1, <1>3, <2>1, <2>2 DEF Acquire
<1>4. ASSUME NEW rec \in CallRecord, calls' = [calls EXCEPT ![c] = rec],
             rec.current = calls[c].current, Ends(rec),
             calls[c].at = "answered" => answerLost',
             file' \in {file, Torn, Empty},
             UNCHANGED <<valid, logins, expired, takeovers>>, answerLost => answerLost'
      PROVE  QuietStep
  <2>1. (\A d \in Calls : d # c => SameCall(d)) /\ calls'[c] = rec
    BY <1>0, <1>4 DEF SameCall
  <2> QED  BY <1>1, <1>4, <2>1, CopiesType
<1>5. CASE /\ \/ LockTimesOut(c) \/ ProviderRefuses(c) \/ RequestFails(c)
              \/ (SaveRefreshed(c) /\ calls[c].compromised = "noticed") \/ SaveFails(c)
              \/ (Acquire(c) /\ ~Readable)
  <2>1. PICK rec \in CallRecord : /\ calls' = [calls EXCEPT ![c] = rec]
                                  /\ rec.current = calls[c].current /\ rec.at = "failed"
    <3>1. calls[c] \in CallRecord  BY <1>0
    <3>2. /\ [calls[c] EXCEPT !.at = "failed"] \in CallRecord
          /\ [calls[c] EXCEPT !.at = "failed", !.compromised = "no"] \in CallRecord
          /\ [calls[c] EXCEPT !.at = "failed"].at = "failed"
          /\ [calls[c] EXCEPT !.at = "failed"].current = calls[c].current
          /\ [calls[c] EXCEPT !.at = "failed", !.compromised = "no"].at = "failed"
          /\ [calls[c] EXCEPT !.at = "failed", !.compromised = "no"].current = calls[c].current
      BY <3>1 DEF CallRecord
    <3>3. \/ calls' = [calls EXCEPT ![c] = [calls[c] EXCEPT !.at = "failed"]]
          \/ calls' = [calls EXCEPT ![c] = [calls[c] EXCEPT !.at = "failed", !.compromised = "no"]]
      BY <1>0, <1>5
         DEF LockTimesOut, ProviderRefuses, RequestFails, SaveRefreshed, SaveFails, Acquire
    <3> QED  BY <3>2, <3>3
  <2>2. /\ calls[c].at = "answered" => answerLost'
        /\ file' \in {file, Torn, Empty}
        /\ UNCHANGED <<valid, logins, expired, takeovers>> /\ (answerLost => answerLost')
    <3>1. CASE LockTimesOut(c)  BY <3>1 DEF LockTimesOut
    <3>2. CASE ProviderRefuses(c)  BY <3>2 DEF ProviderRefuses
    <3>3. CASE RequestFails(c)  BY <3>3 DEF RequestFails
    <3>4. CASE SaveRefreshed(c) /\ calls[c].compromised = "noticed"
      BY <3>4 DEF SaveRefreshed, KeepAnswer
    <3>5. CASE Acquire(c) /\ ~Readable  BY <3>5 DEF Acquire
    <3>6. CASE SaveFails(c)  BY <3>6 DEF SaveFails, KeepAnswer, WriteCut
    <3> QED  BY <1>5, <3>1, <3>2, <3>3, <3>4, <3>5, <3>6
  <2> QED  BY <1>4, <2>1, <2>2
<1>6. CASE NoticeCompromised(c)
  <2>1. \A d \in Calls : SameCall(d)
    BY <1>0, <1>6 DEF NoticeCompromised, SameCall, CallRecord
  <2> QED  BY <1>1, <1>6, <2>1, CopiesType DEF NoticeCompromised, SameCall
<1>7. ASSUME NEW p \in OAuth, GetApiKey(c, p) PROVE QuietStep
  <2>1. (\A d \in Calls : d # c => SameCall(d)) /\ calls[c].at = "idle"
        /\ calls'[c].at = "locking" /\ calls'[c].current = calls[c].current
    <3>1. calls' = [calls EXCEPT ![c] = [calls[c] EXCEPT !.at = "locking", !.provider = p]]
          /\ calls[c].at = "idle" /\ calls[c] \in CallRecord
      BY <1>0, <1>7 DEF GetApiKey
    <3> QED  BY <1>0, <3>1 DEF SameCall, CallRecord
  <2> QED  BY <1>1, <1>7, <2>1, CopiesType DEF GetApiKey
<1>8. CASE FallBack(c)
  <2> DEFINE others == [calls EXCEPT ![c] = NoWork]
  <2>1. others \in [Calls -> CallRecord] /\ calls[c].at = "failed"
    BY <1>0, <1>8, NoWorkType DEF FallBack
  <2>2. \A d \in Calls : others[d] = IF d = c THEN NoWork ELSE calls[d]  BY <1>0
  <2>3. TakeLock(others) \/ LockRefused(others)  BY <1>8 DEF FallBack, Reload
  <2> HIDE DEF others
  <2>4. (\A d \in Calls : Marked(d, others[d]))
        /\ (takeovers' = takeovers \/ takeovers' = takeovers + 1)
    BY <2>1, <2>2, <2>3, LockTaken
  <2>5. ASSUME NEW d \in Calls, d # c PROVE SameCall(d)
    <3>1. calls'[d] = calls[d] \/ calls'[d] = [calls[d] EXCEPT !.compromised = "unnoticed"]
      BY <2>2, <2>4, <2>5 DEF Marked
    <3>2. calls[d] \in CallRecord  BY <1>0
    <3> QED  BY <3>1, <3>2 DEF SameCall, CallRecord
  <2>6. calls'[c] = NoWork  BY <2>1, <2>2, <2>4 DEF Marked
  <2>7. NoWork.current = Empty /\ Ends(NoWork)  BY NoWorkType
  <2>8. UNCHANGED <<file, valid, logins, expired, answerLost>>  BY <1>8 DEF FallBack
  <2>9. takeovers' = 0 => takeovers = 0  BY <1>0, <2>4
  <2> QED  BY <1>1, <2>1, <2>5, <2>6, <2>7, <2>8, <2>9
<1> QED  BY <1>2, <1>3, <1>5, <1>6, <1>7, <1>8 DEF Acquire

LEMMA CrashTokens ==
    ASSUME LockInv, LoginInv, NEW i \in Instances, Crash(i)
    PROVE  QuietStep
<1>1. /\ calls' = [c \in Calls |-> IF home[c] = i THEN NoWork ELSE calls[c]]
      /\ file' \in {file, Torn, Empty}
      /\ UNCHANGED <<valid, logins, expired, takeovers>>
      /\ answerLost' = (answerLost \/ \E c \in {d \in Calls : home[d] = i} :
                                         calls[c].at = "answered")
  BY DEF Crash, WriteCut
<1>2. \A c \in Calls : calls'[c] = IF home[c] = i THEN NoWork ELSE calls[c]
  BY <1>1
<1>3. Copies' \subseteq Copies \union {Empty}
  BY <1>1, <1>2, NoWorkType DEF Copies
<1>4. \A c \in Calls : home[c] = i \/ SameCall(c)
  BY <1>2 DEF SameCall
<1>5. CallsCalm
  BY <1>2, <1>4, NoWorkType DEF CallsCalm
<1>6. \A c \in Calls : calls[c].at = "answered" => SameCall(c) \/ answerLost'
  BY <1>1, <1>4
<1>7. logins <= logins' /\ (\A e \in expired' : e.login # 0)
  BY <1>1, Types DEF LoginInv
<1> QED  BY <1>1, <1>3, <1>5, <1>6, <1>7 DEF QuietStep

LEMMA StillTokens ==
    ASSUME LockInv, LoginInv, Expire \/ UNCHANGED vars
    PROVE  QuietStep
<1>1. UNCHANGED <<file, calls, valid, logins, takeovers, answerLost>>
  BY DEF Expire
<1>2. \A e \in expired' : e.login # 0
  <2>1. CASE Expire
    <3>1. PICK l \in Logins \ {0} : expired' = expired \union {[login |-> l, gen |-> valid[l]]}
      BY <2>1 DEF Expire
    <3> QED  BY <3>1 DEF LoginInv
  <2>2. CASE UNCHANGED vars
    BY <2>2 DEF LoginInv
  <2> QED  BY <2>1, <2>2
<1>3. (\A c \in Calls : SameCall(c)) /\ Copies' = Copies
  BY <1>1 DEF SameCall, Copies
<1> QED  BY <1>1, <1>2, <1>3, Types DEF QuietStep, CallsCalm

LEMMA TokenSteps ==
    ASSUME LockInv, LoginInv, [Next]_vars
    PROVE  \/ QuietStep \/ WriteStep
           \/ \E c \in Calls : ProviderAnswers(c)
           \/ \E c \in Calls : SaveRefreshed(c) /\ calls[c].compromised # "noticed"
<1>1. ASSUME NEW c \in Calls,
             CallStep(c) \/ RequestFails(c) \/ SaveFails(c) \/ NoticeCompromised(c)
      PROVE  \/ QuietStep \/ ProviderAnswers(c)
             \/ SaveRefreshed(c) /\ calls[c].compromised # "noticed"
  BY <1>1, CallTokens DEF CallStep
<1>2. ASSUME NEW c \in Calls, NEW p \in OAuth, GetApiKey(c, p) PROVE QuietStep
  BY <1>2, CallTokens
<1>3. ASSUME NEW i \in Instances, NEW p \in Providers, Set(i, p) \/ Remove(i, p)
      PROVE  QuietStep \/ WriteStep
  BY <1>3, ChangeTokens
<1>4. ASSUME NEW i \in Instances, Crash(i) PROVE QuietStep
  BY <1>4, CrashTokens
<1>5. CASE Expire \/ UNCHANGED vars
  BY <1>5, StillTokens
<1> QED  BY <1>1, <1>2, <1>3, <1>4, <1>5 DEF Next

\* The file keeps a usable token for every provider, or the answer for it is with a
\* call that will save it.
LEMMA UsableStep ==
    ASSUME AuthInv, [Next]_vars
    PROVE  UsableInv'
<1>0. /\ ~Symlinked /\ LockInv /\ LoginInv /\ TokenInv /\ UsableInv /\ OAuth \subseteq Providers
      /\ valid \in [Logins -> Nat]
  BY DEF AuthInv, LockInv, TypeOK
<1> DEFINE Answer(c, q) == /\ calls[c].at = "answered" /\ calls[c].provider = q
                           /\ calls[c].current[q] = file[q]
           Usable(q) == file[q].gen = valid[file[q].login] \/ \E c \in Calls : Answer(c, q)
<1>1. UsableInv <=> (NonePutBack /\ ~answerLost /\ Readable => \A q \in OAuth : Usable(q))
  BY DEF UsableInv
<1>2. SUFFICES ASSUME NonePutBack', ~answerLost', Readable', NEW q \in OAuth
               PROVE  Usable(q)'
  BY DEF UsableInv
<1>3. CASE QuietStep
  <2>1. NonePutBack /\ ~answerLost  BY <1>2, <1>3 DEF QuietStep, NonePutBack
  <2>2. CASE file' = file
    <3>1. Usable(q)  BY <1>0, <1>1, <1>2, <2>1, <2>2
    <3>2. CASE \E c \in Calls : Answer(c, q)
      <4>1. PICK c \in Calls : Answer(c, q)  BY <3>2
      <4>2. SameCall(c)  BY <1>2, <1>3, <4>1 DEF QuietStep
      <4> QED  BY <2>2, <4>1, <4>2 DEF SameCall
    <3> QED  BY <1>3, <2>2, <3>1, <3>2 DEF QuietStep
  <2>3. CASE file' = Empty
    <3>1. file'[q] = NoCredential /\ valid'[0] = 0
      BY <1>0, <1>3, <2>3, AuthAssumption DEF QuietStep, LoginInv
    <3> QED  BY <3>1
  <2> QED  BY <1>2, <1>3, <2>2, <2>3 DEF QuietStep
<1>4. CASE WriteStep
  <2>1. PICK i \in Instances, p \in Providers, cred \in Credential :
        /\ Readable /\ file' = Merged(i, p, cred)
        /\ \/ cred = NoCredential /\ logins' = logins
           \/ cred = [login |-> logins + 1, gen |-> 0] /\ logins' = logins + 1
        /\ \A c \in Calls : SameCall(c)
        /\ UNCHANGED <<valid, expired, answerLost>>
        /\ takeovers' = 0 => takeovers = 0
    BY <1>4 DEF WriteStep
  <2>2. file \in [Providers -> Credential] /\ logins \in Nat
    BY <1>0, <2>1, Types
  <2>3. file'[q] = IF q = p THEN cred ELSE file[q]
    BY <1>0, <2>1, <2>2 DEF Merged
  <2>4. CASE q = p
    <3>1. cred.gen = 0 /\ (cred.login = 0 \/ cred.login = logins + 1) /\ cred.login \in Logins
      BY <2>1
    <3>2. valid[cred.login] = 0  BY <1>0, <2>2, <3>1 DEF LoginInv
    <3> QED  BY <2>1, <2>3, <2>4, <3>1, <3>2
  <2>5. CASE q # p
    <3>1. NonePutBack /\ ~answerLost  BY <1>2, <2>1 DEF NonePutBack
    <3>2. Usable(q)  BY <1>0, <1>1, <2>1, <3>1
    <3>3. CASE \E c \in Calls : Answer(c, q)
      <4>1. PICK c \in Calls : Answer(c, q)  BY <3>3
      <4> QED  BY <2>1, <2>3, <2>5, <4>1 DEF SameCall
    <3> QED  BY <2>1, <2>3, <2>5, <3>2, <3>3
  <2> QED  BY <2>4, <2>5
<1>5. ASSUME NEW c \in Calls, ProviderAnswers(c) PROVE Usable(q)'
  <2>1. /\ calls[c].at = "refreshing" /\ Token(c).gen = valid[Token(c).login]
        /\ valid' = [valid EXCEPT ![Token(c).login] = @ + 1]
        /\ calls' = [calls EXCEPT ![c].at = "answered"]
        /\ UNCHANGED <<file, takeovers, answerLost>>
    BY <1>5 DEF ProviderAnswers, Token
  <2>2. \A d \in Calls : /\ calls'[d].at = IF d = c THEN "answered" ELSE calls[d].at
                         /\ calls'[d].provider = calls[d].provider
                         /\ calls'[d].current = calls[d].current
    BY <1>0, <2>1, Types DEF CallRecord
  <2>3. Usable(q)  BY <1>0, <1>1, <1>2, <2>1 DEF NonePutBack
  <2>4. CASE \E d \in Calls : Answer(d, q)
    <3>1. PICK d \in Calls : Answer(d, q)  BY <2>4
    <3> QED  BY <2>1, <2>2, <3>1
  <2>5. CASE file[q].gen = valid[file[q].login]
    <3>1. file[q] \in Credential /\ file \in Copies
      BY <1>0, <1>2, <2>1, Types, CopiesType
    <3>2. CASE file[q].login # Token(c).login
      BY <1>0, <2>1, <2>5, <3>1, <3>2
    <3>3. CASE file[q].login = Token(c).login
      <4>1. Token(c).login # 0 /\ calls[c].current \in Copies /\ Token(c) \in Credential
            /\ calls[c].provider \in Providers
        BY <1>0, <2>1, CopiesType DEF TokenInv
      <4>2. q = calls[c].provider
        BY <1>0, <3>1, <3>3, <4>1 DEF LoginInv, Token
      <4>3. file[q] = Token(c)  BY <2>1, <2>5, <3>1, <3>3, <4>1
      <4> QED  BY <2>1, <2>2, <4>2, <4>3 DEF Token
    <3> QED  BY <3>2, <3>3
  <2> QED  BY <2>3, <2>4, <2>5
<1>6. ASSUME NEW c \in Calls, SaveRefreshed(c), calls[c].compromised # "noticed"
      PROVE  Usable(q)'
  <2>1. /\ calls[c].at = "answered" /\ calls' = [calls EXCEPT ![c] = NoWork]
        /\ file'[q] = IF q = calls[c].provider
                      THEN [login |-> Token(c).login, gen |-> Token(c).gen + 1]
                      ELSE calls[c].current[q]
        /\ UNCHANGED <<valid, answerLost, takeovers>>
    BY <1>0, <1>6, SavedFile
  <2>2. CASE q = calls[c].provider
    <3>1. valid[Token(c).login] = Token(c).gen + 1  BY <1>0, <2>1 DEF TokenInv, Ahead
    <3> QED  BY <2>1, <2>2, <3>1
  <2>3. CASE q # calls[c].provider
    <3>1. calls[c].provider \in OAuth /\ CallInv(c)
      BY <1>0, <2>1 DEF LockInv, CallInv
    <3>2. takeovers = 0  BY <1>2, <2>1, <2>3, <3>1 DEF NonePutBack
    <3>3. Readable /\ calls[c].current = file  BY <1>0, <2>1, <3>1, <3>2 DEF CallInv
    <3>4. Usable(q)  BY <1>0, <1>1, <1>2, <2>1, <3>2, <3>3 DEF NonePutBack
    <3>5. file'[q] = file[q]  BY <2>1, <2>3, <3>3
    <3>6. CASE \E d \in Calls : Answer(d, q)
      <4>1. PICK d \in Calls : Answer(d, q)  BY <3>6
      <4>2. d # c  BY <2>3, <4>1
      <4>3. calls'[d] = calls[d]  BY <1>0, <2>1, <4>2, Types
      <4> QED  BY <3>5, <4>1, <4>3
    <3> QED  BY <2>1, <3>4, <3>5, <3>6
  <2> QED  BY <2>2, <2>3
<1> QED  BY <1>0, <1>3, <1>4, <1>5, <1>6, TokenSteps

LEMMA AuthInductive == AuthInv /\ [Next]_vars => AuthInv'
<1> SUFFICES ASSUME AuthInv, [Next]_vars PROVE AuthInv'
  OBVIOUS
<1>1. ~Symlinked /\ LockInv /\ LockInv' /\ LoginInv /\ TokenInv
  BY LockInductive DEF AuthInv
<1>2. ChangesAreKept'  BY ChangesStep DEF AuthInv
<1>3. UsableInv'  BY UsableStep
<1>4. LoginInv' /\ TokenInv'
  BY <1>1, TokenSteps, QuietKeeps, WriteKeeps, AnswerKeeps, SaveKeeps
<1> QED  BY <1>1, <1>2, <1>3, <1>4 DEF AuthInv

\* Whatever the programs, refreshes, failed writes and crashes do, the file keeps
\* every acknowledged change and, while no refresh is under way, tokens the
\* providers accept (auth-storage.ts:435).  A set() must meet the lock of a
\* refresh: auth.json is no link.
THEOREM CredentialsSurvive == ~Symlinked => (Spec => []CredentialsKept)
<1> SUFFICES ASSUME ~Symlinked PROVE Spec => []CredentialsKept
  OBVIOUS
<1>1. AuthInv /\ [Next]_vars => AuthInv'  BY AuthInductive
<1>2. Init => AuthInv  BY InitLock, InitTokens DEF AuthInv
<1>3. AuthInv => CredentialsKept
  BY DEF AuthInv, UsableInv, CredentialsKept, TokenUsable
<1> QED  BY <1>1, <1>2, <1>3, PTL DEF Spec
=============================================================================
