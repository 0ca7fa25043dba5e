----------------------------- MODULE LoginGuard -----------------------------
(***************************************************************************)
(* Accounts of the platform: the handlers POST /auth/login, POST            *)
(* /auth/register and GET /auth/public-key on the threads of one API        *)
(* process, the LoginGuard they share, the RSA key of the process and its   *)
(* file, and the browsers that cache the public key.  A critical section    *)
(* of the code is one step.  The clock moves between the steps; a tick is   *)
(* longer than a critical section.  A password is right or not, weak or     *)
(* not; a ciphertext is the password and the key it was made with.          *)
(***************************************************************************)
EXTENDS Integers, FiniteSets, Functions

CONSTANTS
    Clients,        \* browsers; each has one request at a time on its own thread
    IpOf,           \* [Clients -> ips]: what client_ip finds in X-Forwarded-For
    Names, Emails,
    Passwords, Strong,          \* the passwords the policy accepts
    MaxFailures, LockTime,      \* login_max_failures, login_lock_minutes
    Rate, Window,               \* [{"login", "register"} -> Nat]: the two limits
    MaxTime, MaxTries, MaxRestarts      \* bounds of the model

Kinds == {"login", "register"}
Ips == Range(IpOf)

ASSUME GuardAssumption ==
    /\ IsFiniteSet(Clients) /\ DOMAIN IpOf = Clients
    /\ Strong \subseteq Passwords
    /\ MaxFailures \in Nat \ {0} /\ LockTime \in Nat \ {0}
    /\ Rate \in [Kinds -> Nat \ {0}] /\ Window \in [Kinds -> Nat \ {0}]
    /\ MaxTime \in Nat /\ MaxTries \in Nat /\ MaxRestarts \in Nat

NoKey == 0

VARIABLES
    clock,          \* time.time()
    windows,        \* _windows: [Kinds -> [Ips -> start of the window and hits]]
    failures,       \* _failures: [Names -> failures in a row and end of the lock]
    users,          \* the table of users
    keyFile,        \* the key in auth_rsa_key_path, NoKey when there is no file
    privateKey,     \* what the lru_cache of _private_key holds
    keys,           \* keys generated so far
    cachedKey,      \* [Clients -> key]: cachedKey of crypto.ts
    call,           \* [Clients -> the request and where its thread is]
    tries, restarts,
    guesses,        \* history: wrong passwords tested since the count was cleared
    since,          \* history: when that was
    passed,         \* history: [Kinds -> [Ips -> the requests let in: when, by which hit,
                    \* and after how many restarts]]; a restart does not empty it
    handed          \* history: public keys given out by this process

guard == <<windows, failures, guesses, since, passed>>
keyring == <<keyFile, privateKey, keys, handed>>
vars == <<clock, guard, users, keyring, cachedKey, call, tries, restarts>>

NoCall == [kind |-> "login", at |-> "idle", name |-> "", email |-> "",
           password |-> "", key |-> NoKey]
Fresh == [started |-> 0, count |-> 0]
Clear == [fails |-> 0, until |-> 0]

Init ==
    /\ clock = 0
    /\ windows = [k \in Kinds |-> [i \in Ips |-> Fresh]]
    /\ failures = [n \in Names |-> Clear]
    /\ users = {}
    /\ keyFile = NoKey /\ privateKey = NoKey /\ keys = 0
    /\ cachedKey = [c \in Clients |-> NoKey]
    /\ call = [c \in Clients |-> NoCall]
    /\ tries = 0 /\ restarts = 0
    /\ guesses = [n \in Names |-> 0]
    /\ since = [n \in Names |-> 0]
    /\ passed = [k \in Kinds |-> [i \in Ips |-> {}]]
    /\ handed = {}

Ip(c) == IpOf[c]
At(c, place) == call[c].at = place
Goto(c, place) == call' = [call EXCEPT ![c].at = place]

\* What the browser is told; no handler looks at it again.
Answers == {"token", "ACCOUNT_LOCKED", "RATE_LIMITED", "PASSWORD_ENCRYPTION_INVALID",
            "WEAK_PASSWORD", "INVALID_CREDENTIALS", "EXISTS", "error"}

Reply(c, what) ==
    /\ what \in Answers
    /\ call' = [call EXCEPT ![c] = NoCall]

-----------------------------------------------------------------------------
(* The browser: the page takes the cached public key or asks for one, and   *)
(* sends the password encrypted with it.  Encrypting never fails, so the    *)
(* retry of encryptPassword is not taken.                                   *)

Submit(c, kind, name, email, password) ==
    /\ At(c, "idle") /\ tries < MaxTries
    /\ tries' = tries + 1
    /\ call' = [call EXCEPT ![c] =
         [kind |-> kind, at |-> IF cachedKey[c] = NoKey THEN "fetch" ELSE "post",
          name |-> name, email |-> email, password |-> password, key |-> cachedKey[c]]]
    /\ UNCHANGED <<clock, guard, users, keyring, cachedKey, restarts>>

\* _private_key: a thread that misses the cache takes _init_lock and reads the
\* file, or makes a key and moves it into place.
BugLoadedKey == keys + 1

LoadedKey == IF keyFile # NoKey THEN keyFile ELSE keys + 1

LoadKey ==
    /\ keyFile' = LoadedKey
    /\ keys' = IF LoadedKey > keys THEN LoadedKey ELSE keys
    /\ privateKey' = IF privateKey = NoKey THEN LoadedKey ELSE privateKey

HandOut(c, key) ==
    /\ handed' = handed \union {key}
    /\ cachedKey' = [cachedKey EXCEPT ![c] = key]
    /\ call' = [call EXCEPT ![c].at = "post", ![c].key = key]
    /\ UNCHANGED <<clock, guard, users, tries, restarts>>

PublicKeyHit(c) ==
    /\ At(c, "fetch") /\ privateKey # NoKey
    /\ HandOut(c, privateKey)
    /\ UNCHANGED <<keyFile, privateKey, keys>>

PublicKeyMiss(c) ==
    /\ At(c, "fetch") /\ privateKey = NoKey
    /\ Goto(c, "load")
    /\ UNCHANGED <<clock, guard, users, keyring, cachedKey, tries, restarts>>

PublicKeyLoad(c) ==
    /\ At(c, "load")
    /\ LoadKey /\ HandOut(c, LoadedKey)

-----------------------------------------------------------------------------
(* LoginGuard: a fixed window of requests per address, and a lock on a name *)
(* after too many wrong passwords in a row.                                 *)

Locked(name) == clock < failures[name].until

BugOpened(w, kind) ==
    IF clock - w.started >= Window[kind] \/ w.count = 0
    THEN [w EXCEPT !.count = 1]
    ELSE [w EXCEPT !.count = @ + 1]

Opened(w, kind) ==
    IF clock - w.started >= Window[kind] \/ w.count = 0
    THEN [started |-> clock, count |-> 1]
    ELSE [w EXCEPT !.count = @ + 1]

\* The account is looked at first, and under its own hold of the mutex.
CheckLock(c) ==
    /\ At(c, "post") /\ call[c].kind = "login"
    /\ IF Locked(call[c].name)
       THEN Reply(c, "ACCOUNT_LOCKED")
       ELSE Goto(c, "window")
    /\ UNCHANGED <<clock, guard, users, keyring, cachedKey, tries, restarts>>

LetIn(reqs, w) ==
    reqs \union {[at |-> clock, run |-> restarts, window |-> w, nth |-> Cardinality(reqs) + 1]}

HitWindow(c) ==
    /\ At(c, IF call[c].kind = "login" THEN "window" ELSE "post")
    /\ LET kind == call[c].kind
           w == Opened(windows[kind][Ip(c)], kind) IN
       /\ windows' = [windows EXCEPT ![kind][Ip(c)] = w]
       /\ IF w.count > Rate[kind]
          THEN Reply(c, "RATE_LIMITED") /\ UNCHANGED passed
          ELSE /\ Goto(c, "decrypt")
               /\ passed' = [passed EXCEPT ![kind][Ip(c)] = LetIn(@, w)]
    /\ UNCHANGED <<clock, failures, guesses, since, users, keyring, cachedKey, tries, restarts>>

\* The process may have been restarted since the key was handed out, so that
\* decrypting may be what loads the key.
Readable(c, key) == call[c].key = key

Decrypt(c) ==
    /\ At(c, "decrypt")
    /\ IF privateKey # NoKey THEN UNCHANGED keyring ELSE LoadKey /\ UNCHANGED handed
    /\ IF ~Readable(c, privateKey')
       THEN Reply(c, "PASSWORD_ENCRYPTION_INVALID")
       ELSE IF call[c].kind = "register" /\ call[c].password \notin Strong
            THEN Reply(c, "WEAK_PASSWORD")
            ELSE Goto(c, "query")
    /\ UNCHANGED <<clock, guard, users, cachedKey, tries, restarts>>

RightPassword(c) ==
    \E u \in users : u.name = call[c].name /\ u.password = call[c].password

Verify(c) ==
    /\ At(c, "query") /\ call[c].kind = "login"
    /\ Goto(c, IF RightPassword(c) THEN "success" ELSE "failure")
    /\ UNCHANGED <<clock, guard, users, keyring, cachedKey, tries, restarts>>

BugCounted(f) ==
    [fails |-> f.fails + 1,
     until |-> IF f.fails + 1 > MaxFailures THEN clock + LockTime ELSE 0]

Counted(f) ==
    [fails |-> f.fails + 1,
     until |-> IF f.fails + 1 >= MaxFailures THEN clock + LockTime ELSE 0]

RecordFailure(c) ==
    LET name == call[c].name IN
    /\ At(c, "failure")
    /\ failures' = [failures EXCEPT ![name] = Counted(@)]
    /\ guesses' = [guesses EXCEPT ![name] = @ + 1]
    /\ Reply(c, "INVALID_CREDENTIALS")
    /\ UNCHANGED <<clock, windows, passed, since, users, keyring, cachedKey, tries, restarts>>

RecordSuccess(c) ==
    LET name == call[c].name IN
    /\ At(c, "success")
    /\ failures' = [failures EXCEPT ![name] = Clear]
    /\ guesses' = [guesses EXCEPT ![name] = 0]
    /\ since' = [since EXCEPT ![name] = clock]
    /\ Reply(c, "token")
    /\ UNCHANGED <<clock, windows, passed, users, keyring, cachedKey, tries, restarts>>

-----------------------------------------------------------------------------
(* Registration looks for the name and the email first and writes the row   *)
(* after hashing the password; the unique columns decide a race.            *)

Taken(c) == \E u \in users : u.name = call[c].name \/ u.email = call[c].email

LookUp(c) ==
    /\ At(c, "query") /\ call[c].kind = "register"
    /\ IF Taken(c) THEN Reply(c, "EXISTS") ELSE Goto(c, "create")
    /\ UNCHANGED <<clock, guard, users, keyring, cachedKey, tries, restarts>>

BugInserted(c) ==
    users \union {[name |-> call[c].name, email |-> call[c].email,
                    password |-> call[c].password]}

Inserted(c) ==
    IF Taken(c) THEN users
    ELSE users \union {[name |-> call[c].name, email |-> call[c].email,
                        password |-> call[c].password]}

Create(c) ==
    /\ At(c, "create")
    /\ users' = Inserted(c)
    /\ Reply(c, IF Taken(c) THEN "error" ELSE "token")
    /\ UNCHANGED <<clock, guard, keyring, cachedKey, tries, restarts>>

-----------------------------------------------------------------------------
Tick ==
    /\ clock < MaxTime
    /\ clock' = clock + 1
    /\ UNCHANGED <<guard, users, keyring, cachedKey, call, tries, restarts>>

\* The guard and the cached key live in the process; requests under way get no
\* answer.  An operator may remove the key file before the new process starts.
Restart ==
    /\ restarts < MaxRestarts
    /\ restarts' = restarts + 1
    /\ windows' = [k \in Kinds |-> [i \in Ips |-> Fresh]]
    /\ failures' = [n \in Names |-> Clear]
    /\ guesses' = [n \in Names |-> 0]
    /\ since' = [n \in Names |-> clock]
    /\ privateKey' = NoKey /\ handed' = {}
    /\ keyFile' \in {keyFile, NoKey}
    /\ call' = [c \in Clients |-> NoCall]
    /\ UNCHANGED <<clock, passed, users, keys, cachedKey, tries>>

Next ==
    \/ \E c \in Clients :
         \/ \E n \in Names, p \in Passwords : Submit(c, "login", n, "", p)
         \/ \E n \in Names, e \in Emails, p \in Passwords : Submit(c, "register", n, e, p)
         \/ PublicKeyHit(c) \/ PublicKeyMiss(c) \/ PublicKeyLoad(c)
         \/ CheckLock(c) \/ HitWindow(c) \/ Decrypt(c)
         \/ Verify(c) \/ RecordFailure(c) \/ RecordSuccess(c)
         \/ LookUp(c) \/ Create(c)
    \/ Tick
    \/ Restart

Spec == Init /\ [][Next]_vars

-----------------------------------------------------------------------------
Places == {"idle", "fetch", "load", "post", "window", "decrypt", "query",
           "failure", "success", "create"}

\* The types of the variables; a lock never ends later than LockTime from now.
TypeOK ==
    /\ clock \in 0..MaxTime
    /\ windows \in [Kinds -> [Ips -> [started : 0..MaxTime, count : Nat]]]
    /\ failures \in [Names -> [fails : Nat, until : 0..(clock + LockTime)]]
    /\ users \subseteq [name : Names, email : Emails, password : Passwords]
    /\ keyFile \in 0..keys /\ privateKey \in 0..keys /\ keys \in Nat
    /\ cachedKey \in [Clients -> 0..keys]
    /\ \A c \in Clients : call[c].at \in Places /\ call[c].kind \in Kinds
    /\ tries \in 0..MaxTries /\ restarts \in 0..MaxRestarts
    /\ guesses \in [Names -> Nat] /\ since \in [Names -> 0..clock]
    /\ handed \subseteq 1..keys

\* Brute force: since the count was last cleared, the wrong passwords tested
\* for a name are at most those before the lock, one for each thread already
\* past the check, and one for each thread whenever a lock has run out.  An
\* expired lock does not give back the free attempts; a right password and a
\* restart clear the count, and with it what is counted here.
GuessBound ==
    LET n == Cardinality(Clients) IN
    \A name \in Names :
        guesses[name] <= MaxFailures - 1 + n * (1 + (clock - since[name]) \div LockTime)

\* In a span of one window's length each process that let requests in adds one
\* limit, and the window that was open when the span began one less than that,
\* its first hit being older.  So a fixed window lets in less than twice its
\* limit, and less than three times over a restart, which forgets the windows.
WindowBurst ==
    \A kind \in Kinds, ip \in Ips : \A t \in 0..MaxTime :
        LET span == {r \in passed[kind][ip] : t <= r.at /\ r.at < t + Window[kind]}
            processes == {r.run : r \in span} IN
        Cardinality(span) <= (Rate[kind] - 1) + Rate[kind] * Cardinality(processes)

\* Two registrations racing past the look-up never leave two accounts with one
\* name or one email.
AccountsUnique ==
    \A u, v \in users : u.name = v.name \/ u.email = v.email => u = v

\* All public keys a process hands out belong to the private key it decrypts
\* with, whichever of several racing requests loads or generates it.
KeysAgree == \A k \in handed : k = privateKey

=============================================================================
