----------------------------- MODULE AuthStorage -----------------------------
(***************************************************************************)
(* The credentials file shared by the instances of the program             *)
(* (packages/coding-agent, core/auth-storage.ts): set() and remove() under *)
(* a lock taken synchronously, getApiKey() refreshing an OAuth token under *)
(* a lock held over the request, locks that go stale, crashes.             *)
(*                                                                         *)
(* A credential is [login, gen]: the login (or set) it comes from, and how *)
(* often it was refreshed since.  The provider accepts each generation     *)
(* once (rotating refresh tokens).                                         *)
(*                                                                         *)
(* A set(), remove() or reload() is one step: it blocks its process, and   *)
(* the others respect its lock.  It resolves no links to find its lock, a  *)
(* refresh does: when auth.json is a link itself, they have two locks.     *)
(*                                                                         *)
(* The file is written in place.  A write that fails, or whose process     *)
(* dies, may leave it empty or cut.                                        *)
(***************************************************************************)
EXTENDS Naturals, FiniteSets

CONSTANTS
    Instances,          \* running programs
    Calls,              \* calls of getApiKey()
    OAuth, ApiKey,      \* the providers that refresh tokens, and the others
    NoCall,
    Symlinked,          \* auth.json is a link to a file elsewhere
    Torn,               \* the content of a file cut in a write
    MaxLogins, MaxExpiries, MaxFailures, MaxCrashes,
    MaxTakeovers        \* bound: locks taken from a holder that is alive

ASSUME AuthAssumption ==
    /\ OAuth \intersect ApiKey = {}
    /\ OAuth \union ApiKey # {}
    /\ NoCall \notin Calls
    /\ Symlinked \in BOOLEAN
    /\ Torn \notin [OAuth \union ApiKey -> [login : 0..MaxLogins, gen : Nat]]
    /\ {MaxLogins, MaxExpiries, MaxFailures, MaxCrashes, MaxTakeovers} \subseteq Nat

VARIABLES
    file,               \* the credentials by provider, or Torn
    lock,               \* the call whose lock directory exists
    left,               \* a set() whose process died left its lock directory
    data, loadError,    \* AuthStorage of each instance
    calls,              \* the getApiKey() calls
    home,               \* the instance of each call
    valid,              \* the provider: the generation it accepts, by login
    expired,            \* credentials whose access token has expired
    logins, failures, crashes, takeovers,
    kept,               \* history: the login the last acknowledged change left
    answerLost          \* history: the provider rotated a token nobody saved

vars == <<file, lock, left, data, loadError, calls, home, valid, expired, logins, failures,
          crashes, takeovers, kept, answerLost>>

-----------------------------------------------------------------------------

Providers == OAuth \union ApiKey
Logins == 0..MaxLogins
Credential == [login : Logins, gen : Nat]
NoCredential == [login |-> 0, gen |-> 0]

Refreshed(cred) == [cred EXCEPT !.gen = @ + 1]

\* The content of a file cut before its first byte: it parses as no credentials.
Empty == [p \in Providers |-> NoCredential]

NoWork == [at |-> "idle", provider |-> CHOOSE p \in Providers : TRUE,
           current |-> [p \in Providers |-> NoCredential], compromised |-> "no"]

\* The instance of one call can be chosen without loss of generality.
FirstCall == CHOOSE c \in Calls : TRUE
FirstInstance == CHOOSE i \in Instances : TRUE

Init ==
    /\ file = Empty
    /\ lock = NoCall
    /\ left = FALSE
    /\ data = [i \in Instances |-> file]
    /\ loadError = [i \in Instances |-> FALSE]
    /\ calls = [c \in Calls |-> NoWork]
    /\ home \in {h \in [Calls -> Instances] : h[FirstCall] = FirstInstance}
    /\ valid = [l \in Logins |-> 0]
    /\ expired = {}
    /\ logins = 0 /\ failures = 0 /\ crashes = 0 /\ takeovers = 0
    /\ kept = [p \in Providers |-> 0]
    /\ answerLost = FALSE

-----------------------------------------------------------------------------
\* The lock and the file

Holding(c) == calls[c].at \in {"refreshing", "answered"}

\* The lock directory is left by a process that is gone.
Orphaned == lock # NoCall /\ ~Holding(lock)

\* What is left for a refresh to find of the lock of a set(), once it has removed
\* the directory it shares with it.
LeftApart == left /\ Symlinked

\* lockSync takes a lock that was not touched for 10 seconds; a refresh touches
\* its own every 15.  Behind a link it meets no lock of a refresh.
TakeLock(others) ==
    /\ left' = FALSE
    /\ \/ /\ Symlinked
          /\ calls' = others
          /\ UNCHANGED <<lock, takeovers>>
       \/ /\ ~Symlinked
          /\ lock = NoCall \/ Orphaned
          /\ lock' = NoCall
          /\ calls' = others
          /\ UNCHANGED takeovers
       \/ /\ ~Symlinked
          /\ lock # NoCall /\ Holding(lock)
          /\ takeovers < MaxTakeovers
          /\ lock' = NoCall
          /\ takeovers' = takeovers + 1
          /\ calls' = [others EXCEPT ![lock].compromised = "unnoticed"]

\* Ten attempts in 200 ms, all refused.
LockRefused(others) ==
    /\ left \/ (~Symlinked /\ lock # NoCall)
    /\ calls' = others
    /\ UNCHANGED <<lock, left, takeovers>>

\* parseStorageData
Readable == file # Torn

\* Mutant of Merged: the change is merged into what the instance remembers.
MergedInMemory(i, p, cred) == [data[i] EXCEPT ![p] = cred]

\* The file with one provider changed.
Merged(i, p, cred) == [file EXCEPT ![p] = cred]

\* A write in place that does not end: the file is as it was, empty or cut.
WriteCut ==
    /\ file' \in {file, Empty, Torn}
    /\ kept' = IF file' = Empty /\ file # Empty THEN [p \in Providers |-> 0] ELSE kept

\* Mutant of Persist: a file that cannot be parsed counts as empty.
PersistOver(i, p, cred) ==
    \/ /\ LockRefused(calls)
       /\ UNCHANGED <<file, kept, failures>>
    \/ /\ TakeLock(calls)
       /\ file' = IF Readable THEN Merged(i, p, cred)
                  ELSE [q \in Providers |-> IF q = p THEN cred ELSE NoCredential]
       /\ kept' = [kept EXCEPT ![p] = cred.login]
       /\ UNCHANGED failures

\* persistProviderChange
Persist(i, p, cred) ==
    \/ /\ loadError[i]
       /\ UNCHANGED <<file, lock, left, calls, takeovers, kept, failures>>
    \/ /\ ~loadError[i]
       /\ LockRefused(calls)
       /\ UNCHANGED <<file, kept, failures>>
    \/ /\ ~loadError[i]
       /\ TakeLock(calls)
       /\ IF Readable
          THEN /\ file' = Merged(i, p, cred)
               /\ kept' = [kept EXCEPT ![p] = cred.login]
          ELSE UNCHANGED <<file, kept>>
       /\ UNCHANGED failures
    \/ /\ ~loadError[i]
       /\ TakeLock(calls)
       /\ Readable
       /\ failures < MaxFailures
       /\ failures' = failures + 1
       /\ WriteCut

\* reload
Reload(i, others) ==
    \/ /\ LockRefused(others)
       /\ loadError' = [loadError EXCEPT ![i] = TRUE]
       /\ UNCHANGED data
    \/ /\ TakeLock(others)
       /\ loadError' = [loadError EXCEPT ![i] = ~Readable]
       /\ data' = IF Readable THEN [data EXCEPT ![i] = file] ELSE data

-----------------------------------------------------------------------------
\* Operations of clients

\* set(), also at the end of login()
Set(i, p) ==
    LET cred == [login |-> logins + 1, gen |-> 0]
    IN /\ logins < MaxLogins
       /\ logins' = logins + 1
       /\ data' = [data EXCEPT ![i][p] = cred]
       /\ Persist(i, p, cred)
       /\ UNCHANGED <<loadError, home, valid, expired, crashes, answerLost>>

\* remove(), also as logout()
Remove(i, p) ==
    /\ data[i][p] # NoCredential
    /\ data' = [data EXCEPT ![i][p] = NoCredential]
    /\ Persist(i, p, NoCredential)
    /\ UNCHANGED <<loadError, home, valid, expired, logins, crashes, answerLost>>

\* getApiKey() with an expired token; otherwise it returns at once.
GetApiKey(c, p) ==
    /\ calls[c].at = "idle"
    /\ p \in OAuth
    /\ data[home[c]][p] \in expired
    /\ calls' = [calls EXCEPT ![c].at = "locking", ![c].provider = p]
    /\ UNCHANGED <<file, lock, left, data, loadError, home, valid, expired, logins, failures,
                   crashes, takeovers, kept, answerLost>>

-----------------------------------------------------------------------------
\* refreshOAuthTokenWithLock

\* Mutant of Acquire: the file is read without the lock.
AcquireUnlocked(c) ==
    LET i == home[c]
        p == calls[c].provider
    IN /\ calls[c].at = "locking"
       /\ Readable
       /\ data' = [data EXCEPT ![i] = file]
       /\ loadError' = [loadError EXCEPT ![i] = FALSE]
       /\ IF file[p] \in expired
          THEN /\ lock' = c
               /\ calls' = [calls EXCEPT ![c].at = "refreshing", ![c].current = file]
          ELSE /\ UNCHANGED lock
               /\ calls' = [calls EXCEPT ![c] = NoWork]
       /\ UNCHANGED <<left, file, home, valid, expired, logins, failures, crashes, takeovers, kept,
                      answerLost>>

\* The lock is acquired and the file read.  Another call may have refreshed the
\* token meanwhile, or logged out; only an expired one is refreshed.
Acquire(c) ==
    LET i == home[c]
        p == calls[c].provider
    IN /\ calls[c].at = "locking"
       /\ lock = NoCall \/ Orphaned
       /\ left' = LeftApart
       /\ IF ~Readable
          THEN /\ lock' = NoCall
               /\ calls' = [calls EXCEPT ![c].at = "failed"]
               /\ UNCHANGED <<data, loadError>>
          ELSE /\ data' = [data EXCEPT ![i] = file]
               /\ loadError' = [loadError EXCEPT ![i] = FALSE]
               /\ IF file[p] \in expired
                  THEN /\ lock' = c
                       /\ calls' = [calls EXCEPT ![c].at = "refreshing", ![c].current = file]
                  ELSE /\ lock' = NoCall
                       /\ calls' = [calls EXCEPT ![c] = NoWork]
       /\ UNCHANGED <<file, home, valid, expired, logins, failures, crashes, takeovers, kept,
                      answerLost>>

\* All retries find the lock taken.
LockTimesOut(c) ==
    /\ calls[c].at = "locking"
    /\ lock # NoCall \/ (left /\ ~Symlinked)
    /\ calls' = [calls EXCEPT ![c].at = "failed"]
    /\ UNCHANGED <<file, lock, left, data, loadError, home, valid, expired, logins, failures,
                   crashes, takeovers, kept, answerLost>>

\* The release at the end: the directory is removed, whoever's it is by now,
\* unless the holder knows that it lost the lock.
Release(c) ==
    IF calls[c].compromised = "noticed"
    THEN UNCHANGED <<lock, left>>
    ELSE /\ lock' = NoCall
         /\ left' = LeftApart

\* The provider gets the refresh token, and rotates it when it is the valid one.
ProviderAnswers(c) ==
    LET token == calls[c].current[calls[c].provider]
    IN /\ calls[c].at = "refreshing"
       /\ token.gen = valid[token.login]
       /\ valid' = [valid EXCEPT ![token.login] = @ + 1]
       /\ calls' = [calls EXCEPT ![c].at = "answered"]
       /\ UNCHANGED <<file, lock, left, data, loadError, home, expired, logins, failures, crashes,
                      takeovers, kept, answerLost>>

\* The provider refuses a token it has rotated.
ProviderRefuses(c) ==
    LET token == calls[c].current[calls[c].provider]
    IN /\ calls[c].at = "refreshing"
       /\ token.gen # valid[token.login]
       /\ calls' = [calls EXCEPT ![c].at = "failed", ![c].compromised = "no"]
       /\ Release(c)
       /\ UNCHANGED <<file, data, loadError, home, valid, expired, logins, failures, crashes,
                      takeovers, kept, answerLost>>

\* The request or its answer is lost.
RequestFails(c) ==
    /\ Holding(c)
    /\ failures < MaxFailures
    /\ failures' = failures + 1
    /\ answerLost' = (answerLost \/ calls[c].at = "answered")
    /\ calls' = [calls EXCEPT ![c].at = "failed", ![c].compromised = "no"]
    /\ Release(c)
    /\ UNCHANGED <<file, data, loadError, home, valid, expired, logins, crashes, takeovers,
                   kept>>

\* The timer that touches the lock finds that it was taken over.
NoticeCompromised(c) ==
    /\ Holding(c)
    /\ calls[c].compromised = "unnoticed"
    /\ calls' = [calls EXCEPT ![c].compromised = "noticed"]
    /\ UNCHANGED <<file, lock, left, data, loadError, home, valid, expired, logins, failures,
                   crashes, takeovers, kept, answerLost>>

\* What SaveRefreshed saves: the answer, merged into the credentials read under
\* the lock.
Answered(c) == [calls[c].current EXCEPT ![calls[c].provider] = Refreshed(@)]

\* The memory of the instance has the answer, and the lock is released.
KeepAnswer(c) ==
    /\ calls[c].at = "answered"
    /\ data' = [data EXCEPT ![home[c]] = Answered(c)]
    /\ loadError' = [loadError EXCEPT ![home[c]] = FALSE]
    /\ Release(c)
    /\ UNCHANGED <<home, valid, expired, logins, crashes, takeovers>>

\* The answer is saved unless the lock is known to be lost.
SaveRefreshed(c) ==
    /\ KeepAnswer(c)
    /\ IF calls[c].compromised = "noticed"
       THEN /\ calls' = [calls EXCEPT ![c].at = "failed", ![c].compromised = "no"]
            /\ answerLost' = TRUE
            /\ UNCHANGED file
       ELSE /\ calls' = [calls EXCEPT ![c] = NoWork]
            /\ file' = Answered(c)
            /\ UNCHANGED answerLost
    /\ UNCHANGED <<failures, kept>>

\* The write of the answer fails.
SaveFails(c) ==
    /\ KeepAnswer(c)
    /\ calls[c].compromised # "noticed"
    /\ failures < MaxFailures
    /\ failures' = failures + 1
    /\ calls' = [calls EXCEPT ![c].at = "failed", ![c].compromised = "no"]
    /\ answerLost' = TRUE
    /\ WriteCut

\* Mutant of FallBack: a refresh that failed is tried again.
FallBackRetrying(c) ==
    /\ calls[c].at = "failed"
    /\ Reload(home[c], [calls EXCEPT ![c].at = "locking"])
    /\ UNCHANGED <<file, home, valid, expired, logins, failures, crashes, kept, answerLost>>

\* getApiKey() after a failed refresh: the file is read again, for the case that
\* another instance has refreshed the token.
FallBack(c) ==
    /\ calls[c].at = "failed"
    /\ Reload(home[c], [calls EXCEPT ![c] = NoWork])
    /\ UNCHANGED <<file, home, valid, expired, logins, failures, crashes, kept, answerLost>>

-----------------------------------------------------------------------------
\* Time and crashes

Expire ==
    \E l \in Logins \ {0} :
        /\ l <= logins
        /\ Cardinality(expired) < MaxExpiries
        /\ expired' = expired \union {[login |-> l, gen |-> valid[l]]}
        /\ UNCHANGED <<file, lock, left, data, loadError, calls, home, valid, logins, failures,
                       crashes, takeovers, kept, answerLost>>

\* A set() of instance i can have the lock: it is free, or it is left behind when
\* the process has died.
LockFree(i) ==
    Symlinked \/ \A c \in Calls : lock = c /\ Holding(c) => home[c] = i

\* A write of instance i may be under way: of a set() or remove() that could parse
\* the file, or of a refresh.
Writing(i) ==
    \/ ~loadError[i] /\ Readable /\ (Symlinked \/ lock = NoCall \/ Orphaned)
    \/ \E c \in Calls : home[c] = i /\ calls[c].at = "answered"

\* The instance is started again, and loads the file if it gets the lock.  Its
\* set() may have left one.
Restart(i) ==
    \E leaves \in {left, left \/ LockFree(i)}, taken \in BOOLEAN :
        /\ IF taken THEN LockFree(i) ELSE leaves \/ (~Symlinked /\ lock # NoCall)
        /\ left' = (leaves /\ ~taken)
        /\ lock' = IF taken /\ ~Symlinked THEN NoCall ELSE lock
        /\ loadError' = [loadError EXCEPT ![i] = ~taken \/ file' = Torn]
        /\ data' = [data EXCEPT ![i] = IF taken /\ file' # Torn THEN file' ELSE Empty]

\* An instance dies, its locks stay, and the file may be cut.
Crash(i) ==
    LET mine == {c \in Calls : home[c] = i}
    IN /\ crashes < MaxCrashes
       /\ crashes' = crashes + 1
       /\ answerLost' = (answerLost \/ \E c \in mine : calls[c].at = "answered")
       /\ calls' = [c \in Calls |-> IF c \in mine THEN NoWork ELSE calls[c]]
       /\ IF Writing(i) THEN WriteCut ELSE UNCHANGED <<file, kept>>
       /\ Restart(i)
       /\ UNCHANGED <<home, valid, expired, logins, failures, takeovers>>

-----------------------------------------------------------------------------

CallStep(c) ==
    \/ Acquire(c) \/ LockTimesOut(c) \/ ProviderAnswers(c) \/ ProviderRefuses(c)
    \/ SaveRefreshed(c) \/ FallBack(c)

Next ==
    \/ \E c \in Calls : CallStep(c) \/ RequestFails(c) \/ SaveFails(c) \/ NoticeCompromised(c)
    \/ \E c \in Calls, p \in OAuth : GetApiKey(c, p)
    \/ \E i \in Instances, p \in Providers : Set(i, p) \/ Remove(i, p)
    \/ \E i \in Instances : Crash(i)
    \/ Expire

Spec == Init /\ [][Next]_vars

\* Retries and requests end.
FairSpec == Spec /\ \A c \in Calls : WF_vars(CallStep(c))

-----------------------------------------------------------------------------

\* Every variable has its type; what an instance holds in memory is never the
\* content of a file it could not parse.
TypeOK ==
    /\ file \in [Providers -> Credential] \union {Torn}
    /\ lock \in Calls \union {NoCall}
    /\ left \in BOOLEAN
    /\ data \in [Instances -> [Providers -> Credential]]
    /\ loadError \in [Instances -> BOOLEAN]
    /\ calls \in [Calls -> [at : {"idle", "locking", "refreshing", "answered", "failed"},
                            provider : Providers, current : [Providers -> Credential],
                            compromised : {"no", "unnoticed", "noticed"}]]
    /\ home \in [Calls -> Instances]
    /\ valid \in [Logins -> Nat]
    /\ expired \subseteq Credential
    /\ logins \in Logins
    /\ {failures, crashes, takeovers} \subseteq Nat
    /\ kept \in [Providers -> Logins]
    /\ answerLost \in BOOLEAN

\* "Refresh OAuth token with backend locking to prevent race conditions.
\* Multiple pi instances may try to refresh simultaneously" (auth-storage.ts:397):
\* one call at a time has a request under way, unless a lock was taken over: a
\* set() takes one for stale after 10 s that a refresh keeps fresh every 15 (:76).
RefreshIsExclusive ==
    takeovers = 0 => \A c, d \in Calls : Holding(c) /\ Holding(d) => c = d

\* No refresh puts back an older token of another provider: none lost its lock, or
\* one provider alone refreshes tokens.
NonePutBack == takeovers = 0 \/ \A p, q \in OAuth : p = q

\* While no refresh is under way the file has the refresh token the provider
\* accepts, not one that was rotated, unless an answer was lost.
TokenUsable ==
    Readable /\ ~answerLost /\ NonePutBack /\ (\A c \in Calls : ~Holding(c)) =>
        \A p \in OAuth : file[p].gen = valid[file[p].login]

\* "preserve unrelated external edits to `auth.json` via locked read/merge/write
\* updates" (CHANGELOG.md:1293): what a client set or removed, and was saved, stays
\* in the file through the changes of other providers, other instances and
\* refreshes (:277, :435), unless a write that was cut has emptied the file
\* (:106, :151) or a lock was taken over.  An auth.json that is a link is
\* excepted: a refresh and a set() then have different locks (:76, :131).
ChangesAreKept ==
    Readable /\ takeovers = 0 => \A p \in Providers : file[p].login = kept[p]

\* The lock is free unless a call is inside or a process died with it.
ReleasedWhenOver == crashes = 0 /\ lock # NoCall => Holding(lock)

\* Refreshes exclude each other and leave no lock behind (auth-storage.ts:397).
LockDiscipline == TypeOK /\ RefreshIsExclusive /\ ReleasedWhenOver

\* The file has every saved change and a token that works (auth-storage.ts:435).
CredentialsKept == TokenUsable /\ ChangesAreKept

\* A file that cannot be parsed is not written over by any instance, so the user
\* can repair it (:270), unless one lost its lock and does not know, or the file is
\* a link, so that a set() of another process may be cut while a refresh has its
\* own lock.
UnreadableIsKept == [][takeovers = 0 /\ file = Torn => file' = Torn]_vars

\* Every getApiKey() ends, whatever became of the lock and the provider.
CallsEnd == \A c \in Calls : []<>(calls[c].at = "idle")
=============================================================================
