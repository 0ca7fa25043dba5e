------------------------ MODULE LoginGuardProofs ------------------------
(***************************************************************************)
(* Proofs about LoginGuard: types, one key per process, accounts that are  *)
(* unique, and the bounds on guesses and on requests let in.               *)
(***************************************************************************)
EXTENDS LoginGuard, FiniteSetTheorems, TLAPS

USE GuardAssumption DEF GuardAssumption, Kinds, NoKey

(* What stands in a request; that of an idle browser is blank. *)
NameField == Names \union {""}
EmailField == Emails \union {""}
PasswordField == Passwords \union {""}

Requests == [kind : Kinds, at : Places, name : NameField, email : EmailField,
             password : PasswordField, key : Nat]

(* A request that has been sent has a name, and one to register an email. *)
Sound(r) ==
    /\ r.at # "idle" =>
          /\ r.name \in Names /\ r.password \in Passwords
          /\ r.kind = "register" => r.email \in Emails
    /\ r.at = "create" => r.kind = "register"
    /\ r.at \in {"window", "failure", "success"} => r.kind = "login"

CallInv == call \in [Clients -> Requests] /\ \A c \in Clients : Sound(call[c])

(* The key the process has loaded is the one in the file. *)
KeyInv ==
    /\ KeysAgree
    /\ privateKey # NoKey => keyFile = privateKey

Typed == TypeOK /\ CallInv

-----------------------------------------------------------------------------
(* The fields hold what is sent, and a blank. *)
LEMMA Fields ==
    /\ Names \subseteq NameField /\ "" \in NameField
    /\ Emails \subseteq EmailField /\ "" \in EmailField
    /\ Passwords \subseteq PasswordField /\ "" \in PasswordField
BY DEF NameField, EmailField, PasswordField

(* Answering a request, or moving it on, keeps the requests well typed.    *)
LEMMA Moved ==
    ASSUME Typed, NEW c \in Clients, NEW p \in Places \ {"create"}, Goto(c, p),
           ~At(c, "idle"),
           p \in {"window", "failure", "success"} => call[c].kind = "login"
    PROVE  CallInv'
<1> USE DEF Typed, CallInv, Goto, At
<1>1. call'[c] = [call[c] EXCEPT !.at = p] /\ \A d \in Clients \ {c} : call'[d] = call[d]
  OBVIOUS
<1>2. call' \in [Clients -> Requests]
  BY DEF Requests
<1>3. /\ call'[c].at = p /\ call'[c].kind = call[c].kind /\ call'[c].name = call[c].name
      /\ call'[c].password = call[c].password /\ call'[c].email = call[c].email
  BY <1>1 DEF Requests
<1>4. ASSUME NEW d \in Clients PROVE Sound(call'[d])
  BY <1>1, <1>3, <1>4 DEF Sound
<1> QED BY <1>2, <1>4

(* A request that got its answer leaves nothing behind. *)
LEMMA Answered ==
    ASSUME Typed, NEW c \in Clients, NEW what, Reply(c, what)
    PROVE  CallInv' /\ call'[c] = NoCall /\ \A d \in Clients \ {c} : call'[d] = call[d]
<1>1. NoCall \in Requests
  BY Fields DEF NoCall, Requests, Places
<1>2. call'[c] = NoCall /\ \A d \in Clients \ {c} : call'[d] = call[d]
  BY DEF Reply, Typed, CallInv
<1>3. call' \in [Clients -> Requests]
  BY <1>1 DEF Reply, Typed, CallInv
<1>4. NoCall.at = "idle"
  BY DEF NoCall
<1>5. ASSUME NEW d \in Clients PROVE Sound(call'[d])
  BY <1>2, <1>4, <1>5 DEF Typed, CallInv, Sound
<1> QED BY <1>2, <1>3, <1>5 DEF CallInv

(* The types of the variables other than the requests hang on these facts. *)
LEMMA InitTyped == Init => Typed
<1> SUFFICES ASSUME Init PROVE Typed
  OBVIOUS
<1>1. TypeOK
  <2>1. windows \in [Kinds -> [Ips -> [started : 0..MaxTime, count : Nat]]]
    BY DEF Init, Fresh
  <2>2. failures \in [Names -> [fails : Nat, until : 0..(clock + LockTime)]]
    BY DEF Init, Clear
  <2>3. \A c \in Clients : call[c].at \in Places /\ call[c].kind \in Kinds
    BY DEF Init, NoCall, Places
  <2> QED BY <2>1, <2>2, <2>3 DEF Init, TypeOK
<1>2. CallInv
  BY Fields DEF Init, CallInv, Sound, NoCall, Requests, Places
<1> QED BY <1>1, <1>2 DEF Typed

(* Sending a request. *)
LEMMA SubmitTyped ==
    ASSUME Typed, NEW c \in Clients, NEW kind \in Kinds, NEW n \in Names,
           NEW e \in EmailField, kind = "register" => e \in Emails,
           NEW p \in Passwords, Submit(c, kind, n, e, p)
    PROVE  Typed'
<1> USE DEF Typed, Submit
<1>1. CallInv'
  <2> DEFINE r == [kind |-> kind, at |-> IF cachedKey[c] = NoKey THEN "fetch" ELSE "post",
                   name |-> n, email |-> e, password |-> p, key |-> cachedKey[c]]
  <2>1. r \in Requests
    <3>1. cachedKey[c] \in Nat
      BY DEF TypeOK
    <3>2. n \in NameField /\ p \in PasswordField
      BY Fields
    <3>3. (IF cachedKey[c] = NoKey THEN "fetch" ELSE "post") \in Places
      BY DEF Places
    <3> QED BY <3>1, <3>2, <3>3 DEF Requests
  <2>2. call' = [call EXCEPT ![c] = r]
    OBVIOUS
  <2>3. r.at \in {"fetch", "post"} /\ r.kind = kind /\ r.name = n /\ r.email = e /\ r.password = p
    OBVIOUS
  <2> HIDE DEF r
  <2>4. call'[c] = r /\ (\A d \in Clients \ {c} : call'[d] = call[d]) /\ call' \in [Clients -> Requests]
    BY <2>1, <2>2 DEF CallInv
  <2>5. ASSUME NEW d \in Clients PROVE Sound(call'[d])
    BY <2>3, <2>4, <2>5 DEF CallInv, Sound
  <2> QED BY <2>4, <2>5 DEF CallInv
<1>2. TypeOK'
  <2>1. \A d \in Clients : call'[d].at \in Places /\ call'[d].kind \in Kinds
    BY <1>1 DEF CallInv, Requests
  <2>2. tries' \in 0..MaxTries
    BY DEF TypeOK
  <2> QED BY <2>1, <2>2 DEF TypeOK, guard, keyring
<1> QED BY <1>1, <1>2

(* Loading the key. *)
LEMMA LoadTyped ==
    ASSUME Typed, LoadKey
    PROVE  /\ keys' \in Nat /\ keys <= keys' /\ LoadedKey \in 1..keys'
           /\ keyFile' = LoadedKey /\ privateKey' \in 1..keys'
           /\ privateKey' = IF privateKey = NoKey THEN LoadedKey ELSE privateKey
BY DEF Typed, TypeOK, LoadKey, LoadedKey

(* A public key is handed out. *)
LEMMA HandOutTyped ==
    ASSUME Typed, NEW c \in Clients, ~At(c, "idle"), NEW key \in Nat, HandOut(c, key)
    PROVE  CallInv'
<1> USE DEF Typed, CallInv, HandOut, At
<1> DEFINE r == [call[c] EXCEPT !.at = "post", !.key = key]
<1>1. r \in Requests
  BY DEF Requests, Places
<1>2. /\ r.at = "post" /\ r.kind = call[c].kind /\ r.name = call[c].name
      /\ r.password = call[c].password /\ r.email = call[c].email
  BY DEF Requests
<1>3. call' = [call EXCEPT ![c] = r]
  OBVIOUS
<1> HIDE DEF r
<1>4. call'[c] = r /\ (\A d \in Clients \ {c} : call'[d] = call[d]) /\ call' \in [Clients -> Requests]
  BY <1>1, <1>3
<1>5. ASSUME NEW d \in Clients PROVE Sound(call'[d])
  BY <1>2, <1>4, <1>5 DEF Sound
<1> QED BY <1>4, <1>5

(* The public key. *)
LEMMA PublicKeyTyped ==
    ASSUME Typed, NEW c \in Clients,
           PublicKeyHit(c) \/ PublicKeyMiss(c) \/ PublicKeyLoad(c)
    PROVE  Typed'
<1>1. CASE PublicKeyHit(c)
  <2>1. privateKey \in Nat /\ privateKey \in 1..keys
    BY <1>1 DEF Typed, TypeOK, PublicKeyHit
  <2>2. CallInv'
    BY <1>1, <2>1, HandOutTyped DEF PublicKeyHit, At
  <2>3. cachedKey' \in [Clients -> 0..keys'] /\ handed' \subseteq 1..keys'
    BY <1>1, <2>1 DEF Typed, TypeOK, PublicKeyHit, HandOut
  <2>4. \A d \in Clients : call'[d].at \in Places /\ call'[d].kind \in Kinds
    BY <2>2 DEF CallInv, Requests
  <2> QED BY <1>1, <2>2, <2>3, <2>4 DEF Typed, TypeOK, PublicKeyHit, HandOut, guard
<1>2. CASE PublicKeyMiss(c)
  <2>1. CallInv'
    BY <1>2, Moved DEF PublicKeyMiss, At, Places
  <2>2. \A d \in Clients : call'[d].at \in Places /\ call'[d].kind \in Kinds
    BY <2>1 DEF CallInv, Requests
  <2> QED BY <1>2, <2>1, <2>2 DEF Typed, TypeOK, PublicKeyMiss, guard, keyring
<1>3. CASE PublicKeyLoad(c)
  <2>1. /\ keys' \in Nat /\ keys <= keys' /\ LoadedKey \in 1..keys'
        /\ keyFile' = LoadedKey /\ privateKey' \in 1..keys'
    BY <1>3, LoadTyped DEF PublicKeyLoad
  <2>2. CallInv'
    BY <1>3, <2>1, HandOutTyped DEF PublicKeyLoad, At
  <2>3. cachedKey \in [Clients -> 0..keys'] /\ handed \subseteq 1..keys'
    BY <2>1 DEF Typed, TypeOK
  <2>4. cachedKey' \in [Clients -> 0..keys'] /\ handed' \subseteq 1..keys'
    BY <1>3, <2>1, <2>3 DEF PublicKeyLoad, HandOut
  <2>5. \A d \in Clients : call'[d].at \in Places /\ call'[d].kind \in Kinds
    BY <2>2 DEF CallInv, Requests
  <2>6. keyFile' \in 0..keys' /\ privateKey' \in 0..keys'
    BY <2>1
  <2> QED BY <1>3, <2>1, <2>2, <2>4, <2>5, <2>6 DEF Typed, TypeOK, PublicKeyLoad, HandOut, guard
<1> QED BY <1>1, <1>2, <1>3
(* The lock and the window. *)
LEMMA GuardTyped ==
    ASSUME Typed, NEW c \in Clients, CheckLock(c) \/ HitWindow(c)
    PROVE  Typed'
<1>1. CASE CheckLock(c)
  <2>1. CallInv'
    BY <1>1, Moved, Answered DEF CheckLock, At, Places
  <2>2. \A d \in Clients : call'[d].at \in Places /\ call'[d].kind \in Kinds
    BY <2>1 DEF CallInv, Requests
  <2> QED BY <1>1, <2>1, <2>2 DEF Typed, TypeOK, CheckLock, guard, keyring
<1>2. CASE HitWindow(c)
  <2>1. CallInv'
    BY <1>2, Moved, Answered DEF HitWindow, At, Places
  <2>2. \A d \in Clients : call'[d].at \in Places /\ call'[d].kind \in Kinds
    BY <2>1 DEF CallInv, Requests
  <2> DEFINE kind == call[c].kind
             w == Opened(windows[kind][Ip(c)], kind)
  <2>3. kind \in Kinds /\ Ip(c) \in Ips
    <3>1. kind \in Kinds
      BY DEF Typed, TypeOK
    <3>2. Ip(c) \in Ips
      BY DEF Ip, Ips, Range
    <3> QED BY <3>1, <3>2
  <2>4. w \in [started : 0..MaxTime, count : Nat]
    BY <2>3 DEF Typed, TypeOK, Opened
  <2>5. windows' = [windows EXCEPT ![kind][Ip(c)] = w]
    BY <1>2 DEF HitWindow
  <2> HIDE DEF kind, w
  <2>6. windows' \in [Kinds -> [Ips -> [started : 0..MaxTime, count : Nat]]]
    BY <2>3, <2>4, <2>5 DEF Typed, TypeOK
  <2> QED BY <1>2, <2>1, <2>2, <2>6 DEF Typed, TypeOK, HitWindow, keyring
<1> QED BY <1>1, <1>2

(* Decrypting, which may load the key, and looking at the account. *)
LEMMA CheckTyped ==
    ASSUME Typed, NEW c \in Clients, Decrypt(c) \/ Verify(c) \/ LookUp(c)
    PROVE  Typed'
<1>1. CASE Decrypt(c)
  <2>1. CallInv'
    BY <1>1, Moved, Answered DEF Decrypt, At, Places
  <2>2. \A d \in Clients : call'[d].at \in Places /\ call'[d].kind \in Kinds
    BY <2>1 DEF CallInv, Requests
  <2>3. /\ keys' \in Nat /\ keyFile' \in 0..keys' /\ privateKey' \in 0..keys'
        /\ keys <= keys' /\ handed' = handed
    BY <1>1, LoadTyped DEF Typed, TypeOK, Decrypt, keyring
  <2>4. cachedKey' \in [Clients -> 0..keys'] /\ handed' \subseteq 1..keys'
    BY <1>1, <2>3 DEF Typed, TypeOK, Decrypt
  <2> QED BY <1>1, <2>1, <2>2, <2>3, <2>4 DEF Typed, TypeOK, Decrypt, guard
<1>2. CASE Verify(c)
  <2>1. CallInv'
    BY <1>2, Moved DEF Verify, At, Places
  <2>2. \A d \in Clients : call'[d].at \in Places /\ call'[d].kind \in Kinds
    BY <2>1 DEF CallInv, Requests
  <2> QED BY <1>2, <2>1, <2>2 DEF Typed, TypeOK, Verify, guard, keyring
<1>3. CASE LookUp(c)
  <2>1. CallInv'
    <3>1. CASE Taken(c)
      BY <1>3, <3>1, Answered DEF LookUp
    <3>2. CASE ~Taken(c)
      BY <1>3, <3>2 DEF LookUp, Goto, At, Typed, CallInv, Sound, Requests, Places
    <3> QED BY <3>1, <3>2
  <2>2. \A d \in Clients : call'[d].at \in Places /\ call'[d].kind \in Kinds
    BY <2>1 DEF CallInv, Requests
  <2> QED BY <1>3, <2>1, <2>2 DEF Typed, TypeOK, LookUp, guard, keyring
<1> QED BY <1>1, <1>2, <1>3

(* The end of a login. *)
LEMMA RecordTyped ==
    ASSUME Typed, NEW c \in Clients, RecordFailure(c) \/ RecordSuccess(c)
    PROVE  Typed'
<1>1. CallInv'
  BY Answered DEF RecordFailure, RecordSuccess
<1>2. \A d \in Clients : call'[d].at \in Places /\ call'[d].kind \in Kinds
  BY <1>1 DEF CallInv, Requests
<1>3. call[c].name \in Names
  BY DEF Typed, CallInv, Sound, RecordFailure, RecordSuccess, At
<1>4. CASE RecordFailure(c)
  <2>1. Counted(failures[call[c].name]) \in [fails : Nat, until : 0..(clock + LockTime)]
    BY <1>3 DEF Typed, TypeOK, Counted
  <2>2. failures' \in [Names -> [fails : Nat, until : 0..(clock + LockTime)]]
    BY <1>3, <1>4, <2>1 DEF RecordFailure, Typed, TypeOK
  <2>3. guesses' \in [Names -> Nat]
    BY <1>3, <1>4 DEF RecordFailure, Typed, TypeOK
  <2> QED BY <1>1, <1>2, <1>4, <2>2, <2>3 DEF Typed, TypeOK, RecordFailure, keyring
<1>5. CASE RecordSuccess(c)
  <2>1. Clear \in [fails : Nat, until : 0..(clock + LockTime)]
    BY DEF Typed, TypeOK, Clear
  <2>2. failures' \in [Names -> [fails : Nat, until : 0..(clock + LockTime)]]
    BY <1>3, <1>5, <2>1 DEF RecordSuccess, Typed, TypeOK
  <2>3. guesses' \in [Names -> Nat] /\ since' \in [Names -> 0..clock]
    BY <1>3, <1>5 DEF RecordSuccess, Typed, TypeOK
  <2> QED BY <1>1, <1>2, <1>5, <2>2, <2>3 DEF Typed, TypeOK, RecordSuccess, keyring
<1> QED BY <1>4, <1>5

(* The end of a registration. *)
LEMMA CreateTyped ==
    ASSUME Typed, NEW c \in Clients, Create(c)
    PROVE  Typed'
<1>1. CallInv'
  BY Answered DEF Create
<1>2. \A d \in Clients : call'[d].at \in Places /\ call'[d].kind \in Kinds
  BY <1>1 DEF CallInv, Requests
<1>3. call[c].name \in Names /\ call[c].password \in Passwords /\ call[c].email \in Emails
  BY DEF Typed, CallInv, Sound, Create, At
<1>4. users' \subseteq [name : Names, email : Emails, password : Passwords]
  BY <1>3 DEF Typed, TypeOK, Create, Inserted
<1> QED BY <1>1, <1>2, <1>4 DEF Typed, TypeOK, Create, guard, keyring

(* The clock and a new process. *)
LEMMA ProcessTyped ==
    ASSUME Typed, Tick \/ Restart
    PROVE  Typed'
<1>1. CASE Tick
  <2>1. CallInv'
    BY <1>1 DEF Tick, Typed, CallInv
  <2>2. clock' \in 0..MaxTime /\ clock \in Nat /\ clock' = clock + 1
    BY <1>1 DEF Tick, Typed, TypeOK
  <2>3. failures' \in [Names -> [fails : Nat, until : 0..(clock' + LockTime)]]
    BY <1>1, <2>2 DEF Tick, Typed, TypeOK, guard
  <2>4. since' \in [Names -> 0..clock']
    BY <1>1, <2>2 DEF Tick, Typed, TypeOK, guard
  <2> QED BY <1>1, <2>1, <2>2, <2>3, <2>4 DEF Tick, Typed, TypeOK, guard, keyring
<1>2. CASE Restart
  <2>1. NoCall \in Requests /\ Sound(NoCall)
    BY Fields DEF NoCall, Requests, Places, Sound
  <2>2. CallInv'
    BY <1>2, <2>1 DEF Restart, CallInv
  <2>3. \A d \in Clients : call'[d].at \in Places /\ call'[d].kind \in Kinds
    BY <2>2 DEF CallInv, Requests
  <2>4. windows' \in [Kinds -> [Ips -> [started : 0..MaxTime, count : Nat]]]
    BY <1>2 DEF Restart, Fresh
  <2>5. failures' \in [Names -> [fails : Nat, until : 0..(clock + LockTime)]]
    BY <1>2 DEF Restart, Clear, Typed, TypeOK
  <2>6. restarts' \in 0..MaxRestarts
    BY <1>2 DEF Restart, Typed, TypeOK
  <2> QED BY <1>2, <2>2, <2>3, <2>4, <2>5, <2>6 DEF Restart, Typed, TypeOK
<1> QED BY <1>1, <1>2
(* Every step keeps the types. *)
LEMMA NextTyped == Typed /\ [Next]_vars => Typed'
<1> SUFFICES ASSUME Typed, [Next]_vars PROVE Typed'
  OBVIOUS
<1>1. CASE UNCHANGED vars
  BY <1>1 DEF vars, guard, keyring, Typed, TypeOK, CallInv
<1>2. ASSUME NEW c \in Clients, NEW n \in Names, NEW p \in Passwords, Submit(c, "login", n, "", p)
      PROVE  Typed'
  BY <1>2, Fields, SubmitTyped
<1>3. ASSUME NEW c \in Clients, NEW n \in Names, NEW e \in Emails, NEW p \in Passwords,
             Submit(c, "register", n, e, p)
      PROVE  Typed'
  BY <1>3, Fields, SubmitTyped
<1>4. ASSUME NEW c \in Clients,
             \/ PublicKeyHit(c) \/ PublicKeyMiss(c) \/ PublicKeyLoad(c)
             \/ CheckLock(c) \/ HitWindow(c) \/ Decrypt(c)
             \/ Verify(c) \/ RecordFailure(c) \/ RecordSuccess(c)
             \/ LookUp(c) \/ Create(c)
      PROVE  Typed'
  BY <1>4, PublicKeyTyped, GuardTyped, CheckTyped, RecordTyped, CreateTyped
<1>5. CASE Tick \/ Restart
  BY <1>5, ProcessTyped
<1> QED BY <1>1, <1>2, <1>3, <1>4, <1>5 DEF Next

(* The state is well typed, and no lock ends later than LockTime from now. *)
THEOREM GuardTypes == Spec => []TypeOK
<1>1. Spec => []Typed
  BY InitTyped, NextTyped, PTL DEF Spec
<1>2. Typed => TypeOK
  BY DEF Typed
<1> QED BY <1>1, <1>2, PTL
-----------------------------------------------------------------------------
(* One key per process. *)

(* A step keeps KeyInv: only loading a key touches it, and then no key of   *)
(* this process has been handed out yet.                                    *)
LEMMA NextKey == Typed /\ KeyInv /\ [Next]_vars => KeyInv'
<1> SUFFICES ASSUME Typed, KeyInv, [Next]_vars PROVE KeyInv'
  OBVIOUS
<1> USE DEF KeyInv, KeysAgree
<1>1. privateKey = NoKey => handed = {}
  BY DEF Typed, TypeOK
<1>2. LoadedKey # NoKey /\ (privateKey # NoKey => LoadedKey = privateKey)
  BY DEF LoadedKey, Typed, TypeOK
<1>3. CASE UNCHANGED keyring
  BY <1>3 DEF keyring
<1>4. ASSUME NEW c \in Clients, PublicKeyHit(c) PROVE KeyInv'
  BY <1>4 DEF PublicKeyHit, HandOut
<1>5. ASSUME NEW c \in Clients, PublicKeyLoad(c) PROVE KeyInv'
  BY <1>1, <1>2, <1>5 DEF PublicKeyLoad, LoadKey, HandOut
<1>6. ASSUME NEW c \in Clients, Decrypt(c) PROVE KeyInv'
  BY <1>1, <1>2, <1>3, <1>6 DEF Decrypt, LoadKey
<1>7. CASE Restart
  BY <1>7 DEF Restart
<1>8. ASSUME NEW c \in Clients,
             \/ PublicKeyMiss(c) \/ CheckLock(c) \/ HitWindow(c)
             \/ Verify(c) \/ RecordFailure(c) \/ RecordSuccess(c)
             \/ LookUp(c) \/ Create(c)
      PROVE  UNCHANGED keyring
  BY <1>8 DEF PublicKeyMiss, CheckLock, HitWindow, Verify, RecordFailure, RecordSuccess, LookUp, Create
<1>9. ASSUME NEW c \in Clients, NEW kind, NEW n, NEW e, NEW p, Submit(c, kind, n, e, p)
      PROVE  UNCHANGED keyring
  BY <1>9 DEF Submit
<1>10. CASE Tick
  BY <1>3, <1>10 DEF Tick
<1> QED BY <1>3, <1>4, <1>5, <1>6, <1>7, <1>8, <1>9, <1>10 DEF Next, vars

(* Whatever requests race to load the key, and however often the process is *)
(* started anew, all public keys a process hands out fit its private key.   *)
THEOREM OneKeyPerProcess == Spec => []KeysAgree
<1>1. Init => Typed /\ KeyInv
  BY InitTyped DEF Init, KeyInv, KeysAgree
<1>2. Spec => [](Typed /\ KeyInv)
  BY <1>1, NextTyped, NextKey, PTL DEF Spec
<1>3. KeyInv => KeysAgree
  BY DEF KeyInv
<1> QED BY <1>2, <1>3, PTL
-----------------------------------------------------------------------------
(* Accounts. *)

(* Only Create adds an account, and not one whose name or email is taken.   *)
LEMMA NextAccounts == AccountsUnique /\ [Next]_vars => AccountsUnique'
<1> SUFFICES ASSUME AccountsUnique, [Next]_vars PROVE AccountsUnique'
  OBVIOUS
<1>1. CASE UNCHANGED users
  BY <1>1 DEF AccountsUnique
<1>2. ASSUME NEW c \in Clients, Create(c) PROVE AccountsUnique'
  BY <1>2 DEF Create, Inserted, Taken, AccountsUnique
<1>3. ASSUME NEW c \in Clients,
             \/ PublicKeyHit(c) \/ PublicKeyMiss(c) \/ PublicKeyLoad(c)
             \/ CheckLock(c) \/ HitWindow(c) \/ Decrypt(c)
             \/ Verify(c) \/ RecordFailure(c) \/ RecordSuccess(c) \/ LookUp(c)
      PROVE  UNCHANGED users
  BY <1>3 DEF PublicKeyHit, PublicKeyMiss, PublicKeyLoad, HandOut, CheckLock, HitWindow, Decrypt,
              Verify, RecordFailure, RecordSuccess, LookUp
<1>4. ASSUME NEW c \in Clients, NEW kind, NEW n, NEW e, NEW p, Submit(c, kind, n, e, p)
      PROVE  UNCHANGED users
  BY <1>4 DEF Submit
<1>5. CASE Tick \/ Restart
  BY <1>1, <1>5 DEF Tick, Restart
<1> QED BY <1>1, <1>2, <1>3, <1>4, <1>5 DEF Next, vars

(* Any number of racing registrations leave one account per name and email. *)
THEOREM OneAccountEach == Spec => []AccountsUnique
<1>1. Init => AccountsUnique
  BY DEF Init, AccountsUnique
<1> QED BY <1>1, NextAccounts, PTL DEF Spec
-----------------------------------------------------------------------------
(* The bound on guesses.  The count that locks is the count of guesses.     *)
(* Until the first lock it is below MaxFailures; while a lock is running    *)
(* no thread comes in, so the guesses and those still to be made by threads *)
(* past the check grow no more; every lock that runs out lets in at most    *)
(* one guess of each thread, and locks do not overlap.                      *)

(* Division by a positive number is monotone, *)
LEMMA DivMono ==
    ASSUME NEW a \in Nat, NEW b \in Nat, NEW l \in Nat \ {0}, a <= b
    PROVE  a \div l \in Nat /\ a \div l <= b \div l
OBVIOUS

(* and one more of the divisor is one more of the quotient. *)
LEMMA DivStep ==
    ASSUME NEW a \in Nat, NEW b \in Nat, NEW l \in Nat \ {0}, a + l <= b
    PROVE  (a \div l) + 1 <= b \div l
OBVIOUS

(* Products are monotone, distribute, and are integers. *)
LEMMA ProductMono ==
    ASSUME NEW n \in Nat, NEW a \in Nat, NEW b \in Nat, a <= b
    PROVE  n * a \in Nat /\ n * b \in Nat /\ n * a <= n * b
OBVIOUS

(* One more of a factor. *)
LEMMA ProductStep ==
    ASSUME NEW n \in Nat, NEW a \in Nat
    PROVE  n * (a + 1) = n * a + n
OBVIOUS

Threads == Cardinality(Clients)

(* Integers are closed under products. *)
LEMMA ProductInt ==
    ASSUME NEW n \in Int, NEW a \in Int
    PROVE  n * a \in Int
OBVIOUS

(* The threads that have passed the check for a name and may still guess.   *)
PastCheck(r, n) == /\ r.kind = "login" /\ r.name = n
                   /\ r.at \in {"window", "decrypt", "query", "failure"}
Past(n) == {c \in Clients : PastCheck(call[c], n)}

(* The locks that fit between the last reset and the end of the last lock.  *)
Locks(n) == (failures[n].until - since[n]) \div LockTime

GuessInv(n) ==
    /\ failures[n].fails = guesses[n]
    /\ guesses[n] < MaxFailures => failures[n].until = 0
    /\ guesses[n] >= MaxFailures =>
          /\ since[n] + LockTime <= failures[n].until
          /\ guesses[n] + (IF Locked(n) THEN Cardinality(Past(n)) ELSE 0)
                <= MaxFailures - 1 + Threads * Locks(n)

(* The threads past a check are finitely many, and no more than there are. *)
LEMMA PastSize ==
    ASSUME NEW n
    PROVE  /\ IsFiniteSet(Past(n)) /\ Threads \in Nat
           /\ Cardinality(Past(n)) \in Nat /\ Cardinality(Past(n)) <= Threads
BY FS_Subset, FS_CardinalityType DEF Past, Threads

(* A step that leaves the count of a name alone and lets no thread past its *)
(* check keeps the bound.                                                   *)
LEMMA GuessKept ==
    ASSUME Typed, NEW n \in Names, GuessInv(n), Past(n)' \subseteq Past(n),
           failures'[n] = failures[n], guesses'[n] = guesses[n], since'[n] = since[n],
           clock' \in Nat, clock <= clock'
    PROVE  GuessInv(n)'
<1>1. Cardinality(Past(n)') \in Nat /\ Cardinality(Past(n)') <= Cardinality(Past(n))
  BY PastSize, FS_Subset, FS_CardinalityType
<1>2. Cardinality(Past(n)) \in Nat
  BY PastSize
<1>3. Locks(n)' = Locks(n)
  BY DEF Locks
<1>4. Locked(n)' => Locked(n)
  BY DEF Locked, Typed, TypeOK
<1>5. guesses[n] \in Nat /\ clock \in Nat
  BY DEF Typed, TypeOK
<1>6. Threads * Locks(n) \in Int
  <2>1. failures[n].until \in Int /\ since[n] \in Int
    BY DEF Typed, TypeOK
  <2>2. Locks(n) \in Int
    BY <2>1 DEF Locks
  <2>3. Threads \in Int
    BY PastSize
  <2> QED BY <2>2, <2>3, ProductInt
<1> DEFINE bound == Threads * Locks(n)
<1>7. bound \in Int /\ bound = (Threads * Locks(n))'
  BY <1>3, <1>6 DEF Threads
<1>8. guesses[n] >= MaxFailures =>
          guesses[n] + (IF Locked(n) THEN Cardinality(Past(n)) ELSE 0) <= MaxFailures - 1 + bound
  BY DEF GuessInv
<1> HIDE DEF bound
<1>9. guesses[n] >= MaxFailures =>
          guesses[n] + (IF Locked(n)' THEN Cardinality(Past(n)') ELSE 0) <= MaxFailures - 1 + bound
  <2>1. CASE Locked(n)'
    BY <1>1, <1>2, <1>4, <1>5, <1>7, <1>8, <2>1
  <2>2. CASE ~Locked(n)'
    BY <1>1, <1>2, <1>5, <1>7, <1>8, <2>2
  <2> QED BY <2>1, <2>2
<1> QED BY <1>7, <1>9 DEF GuessInv

(* A wrong password: the thread leaves, the count grows, a lock may begin.  *)
LEMMA GuessMade ==
    ASSUME Typed, NEW c \in Clients, RecordFailure(c),
           NEW n \in Names, n = call[c].name, GuessInv(n)
    PROVE  GuessInv(n)'
<1> DEFINE g == guesses[n]
           u == failures[n].until
           z == since[n]
           m == Cardinality(Past(n))
           v == clock + LockTime
           q == (v - z) \div LockTime
<1>1. call[c].kind = "login" /\ call[c].at = "failure"
  BY DEF Typed, CallInv, Sound, RecordFailure, At
<1>2. /\ g \in Nat /\ u \in Nat /\ z \in Nat /\ clock \in Nat
      /\ z <= clock /\ u <= v /\ v \in Nat
  BY DEF Typed, TypeOK
<1>3. Threads \in Nat /\ m \in Nat /\ m <= Threads
  BY PastSize
<1>4. call'[c] = NoCall /\ (\A d \in Clients \ {c} : call'[d] = call[d])
  BY Answered DEF RecordFailure
<1>5. failures'[n] = Counted(failures[n]) /\ guesses'[n] = g + 1 /\ since'[n] = z /\ clock' = clock
  BY DEF RecordFailure, Typed, TypeOK
<1>6. ~PastCheck(call'[c], n)
  <2>1. NoCall.at = "idle"
    BY DEF NoCall
  <2> QED BY <1>4, <2>1 DEF PastCheck
<1>7. {d \in Clients : PastCheck(call'[d], n)} = Past(n) \ {c}
  BY <1>4, <1>6 DEF Past
<1>8. c \in Past(n)
  BY <1>1 DEF Past, PastCheck
<1>9. Cardinality(Past(n)') = m - 1
  <2>1. Past(n)' = Past(n) \ {c}
    BY <1>7 DEF Past
  <2>2. IsFiniteSet(Past(n))
    BY PastSize
  <2>3. Cardinality(Past(n) \ {c}) = Cardinality(Past(n)) - 1
    BY <1>8, <2>2, FS_RemoveElement
  <2> QED BY <2>1, <2>3
<1>10. /\ g >= MaxFailures =>
           /\ z + LockTime <= u
           /\ g + (IF clock < u THEN m ELSE 0) <= MaxFailures - 1 + Threads * ((u - z) \div LockTime)
       /\ failures[n].fails = g
  BY DEF GuessInv, Locks, Locked
<1> HIDE DEF g, u, z, m, v
<1>11. CASE g + 1 < MaxFailures
  <2>1. Counted(failures[n]) = [fails |-> g + 1, until |-> 0]
    BY <1>2, <1>10, <1>11 DEF Counted
  <2> QED BY <1>2, <1>5, <1>11, <2>1 DEF GuessInv
<1>12. CASE g + 1 >= MaxFailures
  <2>1. Counted(failures[n]) = [fails |-> g + 1, until |-> v]
    BY <1>2, <1>10, <1>12 DEF Counted, v
  <2>2. z + LockTime <= v /\ v - z \in Nat
    BY <1>2 DEF v
  <2>3. q \in Nat /\ Threads * q \in Nat
    BY <1>3, <2>2, DivMono, ProductMono
  <2> HIDE DEF q
  <2>4. g + 1 + (m - 1) <= MaxFailures - 1 + Threads * q
    <3>1. CASE g < MaxFailures
      <4>1. 1 <= q
        <5>1. 0 \div LockTime = 0
          OBVIOUS
        <5>2. (0 \div LockTime) + 1 <= (v - z) \div LockTime
          BY <1>2, <2>2, DivStep
        <5> QED BY <5>1, <5>2 DEF q
      <4>2. Threads * 1 <= Threads * q /\ Threads * 1 = Threads
        BY <1>3, <2>3, <4>1, ProductMono
      <4> QED BY <1>2, <1>3, <1>12, <2>3, <3>1, <4>2
    <3>2. CASE g >= MaxFailures
      <4> DEFINE k == (u - z) \div LockTime
      <4>1. u - z \in Nat /\ z + LockTime <= u
        BY <1>2, <1>10, <3>2
      <4>2. k \in Nat /\ Threads * k \in Nat
        BY <1>3, <4>1, DivMono, ProductMono
      <4>3. g + (IF clock < u THEN m ELSE 0) <= MaxFailures - 1 + Threads * k
        BY <1>10, <3>2
      <4>4. CASE clock < u
        <5>1. k <= q
          BY <1>2, <2>2, <4>1, DivMono DEF q
        <5> HIDE DEF k
        <5>2. Threads * k <= Threads * q
          BY <1>3, <2>3, <4>2, <5>1, ProductMono
        <5> QED BY <1>2, <1>3, <2>3, <4>2, <4>3, <4>4, <5>2
      <4>5. CASE ~(clock < u)
        <5>1. (u - z) + LockTime <= v - z
          BY <1>2, <4>5 DEF v
        <5>2. k + 1 <= q
          BY <2>2, <4>1, <5>1, DivStep DEF q
        <5> HIDE DEF k
        <5>3. Threads * (k + 1) <= Threads * q /\ Threads * (k + 1) = Threads * k + Threads
          BY <1>3, <2>3, <4>2, <5>2, ProductMono, ProductStep
        <5> QED BY <1>2, <1>3, <2>3, <4>2, <4>3, <4>5, <5>3
      <4> QED BY <4>4, <4>5
    <3> QED BY <1>2, <3>1, <3>2
  <2>5. Locks(n)' = q /\ Threads' = Threads
    BY <1>5, <2>1 DEF Locks, Threads, q
  <2>6. guesses'[n] + (IF Locked(n)' THEN Cardinality(Past(n)') ELSE 0) <= MaxFailures - 1 + Threads * q
    <3>1. guesses'[n] + Cardinality(Past(n)') <= MaxFailures - 1 + Threads * q
      BY <1>2, <1>3, <1>5, <1>9, <2>3, <2>4
    <3>2. m - 1 \in Nat
      <4>1. m # 0
        BY <1>8, PastSize, FS_EmptySet DEF m
      <4> QED BY <1>3, <4>1
    <3> QED BY <1>2, <1>5, <1>9, <2>3, <3>1, <3>2
  <2> QED BY <1>2, <1>5, <1>12, <2>1, <2>2, <2>5, <2>6 DEF GuessInv
<1> QED BY <1>2, <1>11, <1>12

(* Only CheckLock lets a thread past the check.                             *)
LEMMA NobodyPasses ==
    ASSUME Typed, NEW c \in Clients, NEW x \in Names,
           \/ PublicKeyHit(c) \/ PublicKeyMiss(c) \/ PublicKeyLoad(c)
           \/ HitWindow(c) \/ Decrypt(c) \/ Verify(c)
           \/ RecordFailure(c) \/ RecordSuccess(c) \/ LookUp(c) \/ Create(c)
    PROVE  Past(x)' \subseteq Past(x)
<1>1. NoCall.at = "idle"
  BY DEF NoCall
<1>2. ASSUME NEW r, ~PastCheck(r, x) \/ PastCheck(call[c], x),
             call' = [call EXCEPT ![c] = r]
      PROVE  Past(x)' \subseteq Past(x)
  <2>1. call'[c] = r /\ \A d \in Clients \ {c} : call'[d] = call[d]
    BY <1>2 DEF Typed, CallInv
  <2>2. \A d \in Clients : PastCheck(call'[d], x) => PastCheck(call[d], x)
    BY <1>2, <2>1
  <2> QED BY <2>2 DEF Past
<1>3. ASSUME NEW what, Reply(c, what) PROVE Past(x)' \subseteq Past(x)
  <2>1. ~PastCheck(NoCall, x)
    BY <1>1 DEF PastCheck
  <2> QED BY <1>2, <1>3, <2>1 DEF Reply
<1>4. ASSUME NEW p, Goto(c, p),
             \/ p \notin {"window", "decrypt", "query", "failure"}
             \/ call[c].kind # "login"
             \/ call[c].at \in {"window", "decrypt", "query", "failure"}
      PROVE  Past(x)' \subseteq Past(x)
  <2> DEFINE r == [call[c] EXCEPT !.at = p]
  <2>1. r.at = p /\ r.kind = call[c].kind /\ r.name = call[c].name
    BY DEF Typed, CallInv, Requests
  <2>2. call' = [call EXCEPT ![c] = r]
    BY <1>4 DEF Goto
  <2> HIDE DEF r
  <2>3. ~PastCheck(r, x) \/ PastCheck(call[c], x)
    BY <1>4, <2>1 DEF PastCheck
  <2> QED BY <1>2, <2>2, <2>3
<1>5. ASSUME NEW key, HandOut(c, key) PROVE Past(x)' \subseteq Past(x)
  <2> DEFINE r == [call[c] EXCEPT !.at = "post", !.key = key]
  <2>1. r.at = "post"
    BY DEF Typed, CallInv, Requests
  <2>2. call' = [call EXCEPT ![c] = r]
    BY <1>5 DEF HandOut
  <2> HIDE DEF r
  <2>3. ~PastCheck(r, x)
    BY <2>1 DEF PastCheck
  <2> QED BY <1>2, <2>2, <2>3
<1>6. CASE PublicKeyHit(c) \/ PublicKeyMiss(c) \/ PublicKeyLoad(c)
  BY <1>4, <1>5, <1>6 DEF PublicKeyHit, PublicKeyMiss, PublicKeyLoad
<1>7. CASE HitWindow(c)
  BY <1>3, <1>4, <1>7 DEF HitWindow, At, Typed, TypeOK
<1>8. CASE Decrypt(c) \/ Verify(c) \/ LookUp(c)
  BY <1>3, <1>4, <1>8 DEF Decrypt, Verify, LookUp, At
<1>9. CASE RecordFailure(c) \/ RecordSuccess(c) \/ Create(c)
  BY <1>3, <1>9 DEF RecordFailure, RecordSuccess, Create
<1> QED BY <1>6, <1>7, <1>8, <1>9

(* A thread may pass the check, if the name is not locked.                  *)
LEMMA GuessAllowed ==
    ASSUME Typed, NEW c \in Clients, CheckLock(c), NEW x \in Names, GuessInv(x)
    PROVE  GuessInv(x)'
<1>1. UNCHANGED <<failures, guesses, since, clock>> /\ clock \in Nat
  BY DEF CheckLock, guard, Typed, TypeOK
<1>2. CASE Locked(x) \/ call[c].name # x
  <2>1. Past(x)' \subseteq Past(x)
    <3>1. CASE Locked(call[c].name)
      <4>1. call' = [call EXCEPT ![c] = NoCall] /\ NoCall.at = "idle"
        BY <3>1 DEF CheckLock, Reply, NoCall
      <4>2. ~PastCheck(NoCall, x)
        BY <4>1 DEF PastCheck
      <4>3. \A d \in Clients : PastCheck(call'[d], x) => PastCheck(call[d], x)
        BY <4>1, <4>2 DEF Typed, CallInv
      <4> QED BY <4>3 DEF Past
    <3>2. CASE ~Locked(call[c].name)
      <4> DEFINE r == [call[c] EXCEPT !.at = "window"]
      <4>1. r.name = call[c].name
        BY DEF Typed, CallInv, Requests
      <4>2. call' = [call EXCEPT ![c] = r]
        BY <3>2 DEF CheckLock, Goto
      <4> HIDE DEF r
      <4>3. ~PastCheck(r, x)
        BY <1>2, <3>2, <4>1 DEF PastCheck
      <4>4. \A d \in Clients : PastCheck(call'[d], x) => PastCheck(call[d], x)
        BY <4>2, <4>3 DEF Typed, CallInv
      <4> QED BY <4>4 DEF Past
    <3> QED BY <3>1, <3>2
  <2> QED BY <1>1, <2>1, GuessKept
<1>3. CASE ~Locked(x)
  <2>1. ~Locked(x)' /\ Locks(x)' = Locks(x) /\ Threads' = Threads
    BY <1>1, <1>3 DEF Locked, Locks, Threads
  <2> QED BY <1>1, <1>3, <2>1 DEF GuessInv
<1> QED BY <1>2, <1>3

GuessesInv == \A n \in Names : GuessInv(n)

(* Every step keeps the bound.                                              *)
LEMMA NextGuess == Typed /\ GuessesInv /\ [Next]_vars => GuessesInv'
<1> SUFFICES ASSUME Typed, GuessesInv, [Next]_vars, NEW x \in Names PROVE GuessInv(x)'
  BY DEF GuessesInv
<1>1. GuessInv(x) /\ clock \in Nat
  BY DEF GuessesInv, Typed, TypeOK
<1>2. CASE UNCHANGED vars
  <2>1. Past(x)' \subseteq Past(x)
    BY <1>2 DEF vars, Past
  <2> QED BY <1>1, <1>2, <2>1, GuessKept DEF vars, guard
<1>3. ASSUME NEW c \in Clients, NEW kind, NEW n, NEW e, NEW p, Submit(c, kind, n, e, p)
      PROVE  GuessInv(x)'
  <2> DEFINE r == [kind |-> kind, at |-> IF cachedKey[c] = NoKey THEN "fetch" ELSE "post",
                   name |-> n, email |-> e, password |-> p, key |-> cachedKey[c]]
  <2>1. r.at \in {"fetch", "post"} /\ call' = [call EXCEPT ![c] = r]
    BY <1>3 DEF Submit
  <2> HIDE DEF r
  <2>2. ~PastCheck(r, x)
    BY <2>1 DEF PastCheck
  <2>3. \A d \in Clients : PastCheck(call'[d], x) => PastCheck(call[d], x)
    BY <2>1, <2>2 DEF Typed, CallInv
  <2>4. Past(x)' \subseteq Past(x)
    BY <2>3 DEF Past
  <2> QED BY <1>1, <1>3, <2>4, GuessKept DEF Submit, guard
<1>4. ASSUME NEW c \in Clients, CheckLock(c) PROVE GuessInv(x)'
  BY <1>1, <1>4, GuessAllowed
<1>5. ASSUME NEW c \in Clients, RecordFailure(c) PROVE GuessInv(x)'
  <2>1. CASE x = call[c].name
    BY <1>1, <1>5, <2>1, GuessMade
  <2>2. CASE x # call[c].name
    <3>1. Past(x)' \subseteq Past(x)
      BY <1>5, NobodyPasses
    <3>2. failures'[x] = failures[x] /\ guesses'[x] = guesses[x] /\ since'[x] = since[x] /\ clock' = clock
      BY <1>5, <2>2 DEF RecordFailure, Typed, TypeOK
    <3> QED BY <1>1, <3>1, <3>2, GuessKept
  <2> QED BY <2>1, <2>2
<1>6. ASSUME NEW c \in Clients, RecordSuccess(c) PROVE GuessInv(x)'
  <2>1. CASE x = call[c].name
    <3>1. failures'[x] = Clear /\ guesses'[x] = 0
      BY <1>6, <2>1 DEF RecordSuccess, Typed, TypeOK
    <3> QED BY <3>1 DEF Clear, GuessInv
  <2>2. CASE x # call[c].name
    <3>1. Past(x)' \subseteq Past(x)
      BY <1>6, NobodyPasses
    <3>2. failures'[x] = failures[x] /\ guesses'[x] = guesses[x] /\ since'[x] = since[x] /\ clock' = clock
      BY <1>6, <2>2 DEF RecordSuccess, Typed, TypeOK
    <3> QED BY <1>1, <3>1, <3>2, GuessKept
  <2> QED BY <2>1, <2>2
<1>7. ASSUME NEW c \in Clients,
             \/ PublicKeyHit(c) \/ PublicKeyMiss(c) \/ PublicKeyLoad(c)
             \/ HitWindow(c) \/ Decrypt(c) \/ Verify(c) \/ LookUp(c) \/ Create(c)
      PROVE  GuessInv(x)'
  <2>1. Past(x)' \subseteq Past(x)
    BY <1>7, NobodyPasses
  <2>2. UNCHANGED <<failures, guesses, since, clock>>
    BY <1>7 DEF PublicKeyHit, PublicKeyMiss, PublicKeyLoad, HandOut, HitWindow, Decrypt,
                Verify, LookUp, Create, guard
  <2> QED BY <1>1, <2>1, <2>2, GuessKept
<1>8. CASE Tick
  <2>1. Past(x)' \subseteq Past(x)
    BY <1>8 DEF Tick, Past
  <2> QED BY <1>1, <1>8, <2>1, GuessKept DEF Tick, guard
<1>9. CASE Restart
  <2>1. failures'[x] = Clear /\ guesses'[x] = 0
    BY <1>9 DEF Restart
  <2> QED BY <2>1 DEF Clear, GuessInv
<1> QED BY <1>2, <1>3, <1>4, <1>5, <1>6, <1>7, <1>8, <1>9 DEF Next

(* The bound the invariant carries is the one that is claimed.              *)
LEMMA GuessImplies == Typed /\ GuessesInv => GuessBound
<1> SUFFICES ASSUME Typed, GuessesInv, NEW n \in Names
    PROVE  guesses[n] <= MaxFailures - 1 + Threads * (1 + (clock - since[n]) \div LockTime)
  BY DEF GuessBound, Threads
<1> DEFINE g == guesses[n]
           u == failures[n].until
           z == since[n]
           d == (clock - z) \div LockTime
           k == (u - z) \div LockTime
<1>1. /\ g \in Nat /\ u \in Nat /\ z \in Nat /\ clock \in Nat
      /\ z <= clock /\ u <= clock + LockTime
  BY DEF Typed, TypeOK
<1>2. Threads \in Nat /\ Cardinality(Past(n)) \in Nat
  BY PastSize
<1>3. d \in Nat /\ Threads * (1 + d) \in Nat
  BY <1>1, <1>2, DivMono, ProductMono
<1>4. CASE g < MaxFailures
  BY <1>1, <1>3, <1>4
<1>5. CASE g >= MaxFailures
  <2>1. /\ z + LockTime <= u
        /\ g + (IF clock < u THEN Cardinality(Past(n)) ELSE 0) <= MaxFailures - 1 + Threads * k
    BY <1>5 DEF GuessesInv, GuessInv, Locks, Locked
  <2>2. k \in Nat /\ Threads * k \in Nat
    <3>1. u - z \in Nat
      BY <1>1, <2>1
    <3>2. k \in Nat
      BY <3>1, DivMono
    <3> HIDE DEF k
    <3> QED BY <1>2, <3>2, ProductMono
  <2>3. k <= 1 + d
    <3>1. (u - z) - LockTime \in Nat /\ (u - z) - LockTime <= clock - z
      BY <1>1, <2>1
    <3>2. ((u - z) - LockTime) \div LockTime = k - 1
      BY <1>1, <2>1
    <3>3. ((u - z) - LockTime) \div LockTime <= d
      BY <1>1, <3>1, DivMono
    <3> QED BY <1>3, <2>2, <3>2, <3>3
  <2> HIDE DEF k, d
  <2>4. Threads * k <= Threads * (1 + d)
    BY <1>2, <1>3, <2>2, <2>3, ProductMono
  <2> HIDE DEF g, u, z
  <2> QED BY <1>1, <1>2, <1>3, <2>1, <2>2, <2>4 DEF g, d, z
<1> QED BY <1>1, <1>4, <1>5

(* From one clearing of the counter (a right password, a restart) to the    *)
(* next, brute force is bounded with any number of clients and threads,      *)
(* whatever the order of their checks, counts and successes and the clock.   *)
THEOREM GuessesBounded == Spec => []GuessBound
<1>1. Init => GuessesInv
  BY DEF Init, GuessesInv, GuessInv, Clear
<1>2. Spec => [](Typed /\ GuessesInv)
  BY <1>1, InitTyped, NextTyped, NextGuess, PTL DEF Spec
<1> QED BY <1>2, GuessImplies, PTL
-----------------------------------------------------------------------------
(* The rate limit.                                                          *)

(* One window was over when the other began.                                *)
Before(kind, v, w) == v.started + Window[kind] <= w.started

(* A request was let in inside its window and within the limit; its window  *)
(* is the current one or was over before it, or it was let in before the     *)
(* last restart, and so before the current window began.  Two requests of    *)
(* one process have the same window or windows that do not overlap, and      *)
(* never the same place in one; the windows of a later process begin after   *)
(* the requests of an earlier one.                                           *)
Admitted(kind, a) ==
    /\ a.at \in Nat /\ a.at <= clock /\ a.run \in 0..restarts
    /\ a.window \in [started : Nat, count : 1..Rate[kind]]
    /\ a.window.started <= a.at /\ a.at < a.window.started + Window[kind]
    /\ a.window.count = 1 => a.at = a.window.started

Apart(kind, a, b) ==
    /\ a.run = b.run =>
          /\ \/ a.window.started = b.window.started
             \/ Before(kind, a.window, b.window) \/ Before(kind, b.window, a.window)
          /\ a.window = b.window => a = b
    /\ a.run < b.run => a.at <= b.window.started

BurstInv(kind, ip) ==
    LET w == windows[kind][ip]
        reqs == passed[kind][ip] IN
    /\ w.started <= clock
    /\ \A a \in reqs :
          /\ Admitted(kind, a)
          /\ a.run = restarts =>
                /\ w.count # 0
                /\ \/ a.window.started = w.started /\ a.window.count <= w.count
                   \/ Before(kind, a.window, w)
          /\ a.run < restarts /\ w.count # 0 => a.at <= w.started
    /\ \A a, b \in reqs : Apart(kind, a, b)

BurstsInv ==
    /\ passed = [k \in Kinds |-> [i \in Ips |-> passed[k][i]]]
    /\ \A kind \in Kinds, ip \in Ips : BurstInv(kind, ip)

(* A request of a window that was open before the span has a place of its    *)
(* own from the second on, whatever its process: no second process has such  *)
(* a window.  Of the windows that begin in the span each process has one,    *)
(* and a request has a place in it.                                          *)
LEMMA SpanBounded ==
    ASSUME NEW kind \in Kinds, NEW ip \in Ips, BurstInv(kind, ip), NEW t \in Nat,
           restarts \in Nat
    PROVE  LET span == {r \in passed[kind][ip] : t <= r.at /\ r.at < t + Window[kind]}
               processes == {r.run : r \in span}
           IN  Cardinality(span) <= (Rate[kind] - 1) + Rate[kind] * Cardinality(processes)
<1> DEFINE span == {r \in passed[kind][ip] : t <= r.at /\ r.at < t + Window[kind]}
           runs == {r.run : r \in span}
           early == {<<restarts + 1, n>> : n \in 2..Rate[kind]}
           late == runs \X (1..Rate[kind])
           place == [r \in span |-> IF r.window.started < t
                                     THEN <<restarts + 1, r.window.count>>
                                     ELSE <<r.run, r.window.count>>]
<1>0. /\ Window[kind] \in Nat /\ Window[kind] > 0
      /\ Rate[kind] \in Nat /\ Rate[kind] > 0
  OBVIOUS
<1>1. \A a \in span : /\ a.run \in Nat /\ a.run <= restarts
                      /\ a.window.started \in Nat /\ a.window.count \in Nat
                      /\ 1 <= a.window.count /\ a.window.count <= Rate[kind]
                      /\ a.window.count = 1 => a.at = a.window.started
                      /\ a.at \in Nat /\ t <= a.at /\ a.at < t + Window[kind]
                      /\ a.window.started <= a.at /\ a.at < a.window.started + Window[kind]
  BY <1>0 DEF BurstInv, Admitted
<1>2. \A a, b \in span :
         /\ a.run = b.run => \/ a.window.started = b.window.started
                            \/ a.window.started + Window[kind] <= b.window.started
                            \/ b.window.started + Window[kind] <= a.window.started
         /\ a.run < b.run => a.at <= b.window.started
  BY DEF BurstInv, Apart, Before
<1>3. ASSUME NEW a \in span, NEW b \in span, a.run = b.run,
             a.window.started = b.window.started, a.window.count = b.window.count
      PROVE  a = b
  <2>1. a.window = b.window
    BY <1>3 DEF BurstInv, Admitted
  <2> QED BY <1>3, <2>1 DEF BurstInv, Apart
<1>4. \A r \in runs : r \in 0..restarts
  BY <1>1
<1>5. \A a \in span : a.run \in runs
  OBVIOUS
<1> HIDE DEF span, runs
<1>6. ASSUME NEW a \in span PROVE place[a] \in early \union late
  <2>1. CASE a.window.started < t
    <3>1. a.window.count \in 2..Rate[kind]
      BY <1>0, <1>1, <2>1
    <3> QED BY <2>1, <3>1
  <2>2. CASE ~(a.window.started < t)
    <3>1. a.window.count \in 1..Rate[kind]
      BY <1>0, <1>1
    <3> QED BY <1>5, <2>2, <3>1
  <2> QED BY <2>1, <2>2
<1>7. ASSUME NEW a \in span, NEW b \in span, place[a] = place[b] PROVE a = b
  <2>1. a.window.count = b.window.count
    BY <1>7
  <2>2. \/ a.window.started < t /\ b.window.started < t
        \/ ~(a.window.started < t) /\ ~(b.window.started < t) /\ a.run = b.run
    <3>1. a.run # restarts + 1 /\ b.run # restarts + 1
      BY <1>1
    <3> QED BY <1>7, <3>1
  <2> HIDE DEF place
  <2>3. a.run = b.run
    BY <1>1, <1>2, <2>2
  <2>4. a.window.started = b.window.started
    BY <1>0, <1>1, <1>2, <2>2, <2>3
  <2> QED BY <1>3, <2>1, <2>3, <2>4
<1>8. place \in Injection(span, early \union late)
  BY <1>6, <1>7 DEF Injection, IsInjective
<1> HIDE DEF place
<1>9. IsFiniteSet(late) /\ Cardinality(late) = Cardinality(runs) * Rate[kind]
      /\ Cardinality(runs) \in Nat
  <2>1. IsFiniteSet(1..Rate[kind]) /\ Cardinality(1..Rate[kind]) = Rate[kind]
    BY <1>0, FS_Interval
  <2>2. IsFiniteSet(0..restarts)
    BY FS_Interval
  <2>3. runs \subseteq 0..restarts
    BY <1>4
  <2>4. IsFiniteSet(runs)
    BY <2>2, <2>3, FS_Subset
  <2> QED BY <2>1, <2>4, FS_Product, FS_CardinalityType
<1>10. IsFiniteSet(early) /\ Cardinality(early) <= Rate[kind] - 1 /\ Cardinality(early) \in Nat
  <2>1. IsFiniteSet(2..Rate[kind]) /\ Cardinality(2..Rate[kind]) = Rate[kind] - 1
    <3>1. 2 \in Int /\ Rate[kind] \in Int
      BY <1>0
    <3>2. /\ IsFiniteSet(2..Rate[kind])
          /\ Cardinality(2..Rate[kind]) = IF 2 > Rate[kind] THEN 0 ELSE Rate[kind] - 2 + 1
      BY <3>1, FS_Interval, Zenon
    <3> QED BY <1>0, <3>2
  <2> DEFINE f == [n \in 2..Rate[kind] |-> <<restarts + 1, n>>]
  <2>2. f \in Surjection(2..Rate[kind], early)
    BY DEF Surjection
  <2> QED BY <2>1, <2>2, FS_Surjection, FS_CardinalityType
<1> HIDE DEF early, late
<1>11. /\ IsFiniteSet(early \union late)
       /\ Cardinality(early \union late) <= Cardinality(early) + Cardinality(late)
  <2>1. IsFiniteSet(early \cap late)
    BY <1>9, FS_Intersection
  <2>2. Cardinality(early \cap late) \in Nat /\ Cardinality(late) \in Nat
    BY <1>9, <2>1, FS_CardinalityType
  <2>3. /\ IsFiniteSet(early \union late)
        /\ Cardinality(early \union late)
              = Cardinality(early) + Cardinality(late) - Cardinality(early \cap late)
    BY <1>9, <1>10, FS_Union
  <2> QED BY <1>10, <2>2, <2>3
<1>12. IsFiniteSet(span) /\ Cardinality(span) <= Cardinality(early \union late)
  BY <1>8, <1>11, FS_Injection
<1>13. Cardinality(span) <= (Rate[kind] - 1) + Rate[kind] * Cardinality(runs)
  <2>1. Cardinality(span) \in Nat /\ Cardinality(early \union late) \in Nat
    BY <1>11, <1>12, FS_CardinalityType
  <2>2. Cardinality(runs) * Rate[kind] = Rate[kind] * Cardinality(runs)
    BY <1>0, <1>9
  <2>3. Cardinality(late) \in Nat
    BY <1>9, FS_CardinalityType
  <2> QED BY <1>0, <1>9, <1>10, <1>11, <1>12, <2>1, <2>2, <2>3
<1> QED BY <1>13 DEF span, runs

(* A hit of the window keeps the invariant of the window it hits.           *)
LEMMA HitKeeps ==
    ASSUME Typed, NEW kind \in Kinds, NEW ip \in Ips, BurstInv(kind, ip), clock' = clock,
           restarts' = restarts,
           windows'[kind][ip] = Opened(windows[kind][ip], kind),
           \/ passed'[kind][ip] = passed[kind][ip]
           \/ /\ Opened(windows[kind][ip], kind).count <= Rate[kind]
              /\ passed'[kind][ip] = LetIn(passed[kind][ip], Opened(windows[kind][ip], kind))
    PROVE  BurstInv(kind, ip)'
<1> DEFINE w == windows[kind][ip]
           v == Opened(w, kind)
           reqs == passed[kind][ip]
           new == [at |-> clock, run |-> restarts, window |-> v, nth |-> Cardinality(reqs) + 1]
<1>1. /\ w \in [started : Nat, count : Nat] /\ w.started <= clock /\ clock \in Nat
      /\ restarts \in Nat
      /\ Window[kind] \in Nat \ {0} /\ Rate[kind] \in Nat \ {0}
  BY DEF Typed, TypeOK, BurstInv
<1>2. \/ v = [started |-> clock, count |-> 1] /\ (w.started + Window[kind] <= clock \/ w.count = 0)
      \/ v = [w EXCEPT !.count = @ + 1] /\ clock < w.started + Window[kind] /\ w.count # 0
  BY <1>1 DEF Opened
<1> HIDE DEF v
<1>3. /\ v \in [started : Nat, count : Nat \ {0}]
      /\ v.started <= clock /\ clock < v.started + Window[kind]
      /\ v.count = 1 => v.started = clock
  BY <1>1, <1>2
<1>4. ASSUME NEW a \in reqs
      PROVE  /\ Admitted(kind, a)
             /\ a.run = restarts =>
                   \/ a.window.started = v.started /\ a.window.count < v.count
                   \/ a.window.started + Window[kind] <= v.started
             /\ a.run < restarts => a.at <= v.started
  <2>1. /\ Admitted(kind, a)
        /\ a.run = restarts =>
              /\ w.count # 0
              /\ \/ a.window.started = w.started /\ a.window.count <= w.count
                 \/ a.window.started + Window[kind] <= w.started
        /\ a.run < restarts /\ w.count # 0 => a.at <= w.started
    BY DEF BurstInv, Before
  <2>2. /\ a.at \in Nat /\ a.at <= clock
        /\ a.window.started \in Nat /\ a.window.count \in Nat
    BY <1>1, <2>1 DEF Admitted
  <2>3. a.run = restarts => \/ a.window.started = v.started /\ a.window.count < v.count
                            \/ a.window.started + Window[kind] <= v.started
    BY <1>1, <1>2, <2>1, <2>2
  <2>4. a.run < restarts => a.at <= v.started
    BY <1>1, <1>2, <2>1, <2>2
  <2> QED BY <2>1, <2>3, <2>4
<1>5. windows'[kind][ip] = v
  BY DEF v
<1>6. \A a, b \in reqs : Apart(kind, a, b)
  BY DEF BurstInv
<1>7. CASE passed'[kind][ip] = reqs
  <2>1. \A a \in reqs : Admitted(kind, a)'
    BY <1>4 DEF Admitted
  <2>2. v.count # 0
    BY <1>3
  <2>3. \A a \in reqs : a.run = restarts => a.window.count \in Nat
    BY <1>4 DEF Admitted
  <2> QED BY <1>3, <1>4, <1>5, <1>6, <1>7, <2>1, <2>2, <2>3 DEF BurstInv, Before, Apart
<1>8. CASE v.count <= Rate[kind] /\ passed'[kind][ip] = reqs \union {new}
  <2>1. new.at = clock /\ new.window = v /\ new.run = restarts
    OBVIOUS
  <2> HIDE DEF new
  <2>2. v \in [started : Nat, count : 1..Rate[kind]]
    BY <1>1, <1>3, <1>8
  <2>3. Admitted(kind, new)
    BY <1>1, <1>3, <2>1, <2>2 DEF Admitted
  <2>4. \A a \in reqs \union {new} :
            /\ Admitted(kind, a)
            /\ a.run = restarts =>
                  /\ v.count # 0
                  /\ \/ a.window.started = v.started /\ a.window.count <= v.count
                     \/ a.window.started + Window[kind] <= v.started
            /\ a.run < restarts /\ v.count # 0 => a.at <= v.started
    <3>1. \A a \in reqs : a.window.count \in Nat
      BY <1>1, <1>4 DEF Admitted
    <3> QED BY <1>1, <1>3, <1>4, <2>1, <2>3, <3>1
  <2>5. ASSUME NEW a \in reqs PROVE Apart(kind, a, new) /\ Apart(kind, new, a)
    <3>1. a.run \in 0..restarts /\ a.window.count \in Nat /\ a.window.started \in Nat
      BY <1>1, <1>4 DEF Admitted
    <3>2. a.run = restarts => a.window # v
      BY <1>1, <1>3, <1>4, <3>1
    <3> QED BY <1>1, <1>4, <2>1, <3>1, <3>2 DEF Apart, Before
  <2>6. Apart(kind, new, new)
    BY <1>1, <2>1 DEF Apart
  <2>7. \A a, b \in reqs \union {new} : Apart(kind, a, b)
    BY <1>6, <2>5, <2>6
  <2>8. \A a \in reqs \union {new} : Admitted(kind, a)'
    BY <2>4 DEF Admitted
  <2> QED BY <1>3, <1>5, <1>8, <2>4, <2>7, <2>8 DEF BurstInv, Before, Apart
<1> QED BY <1>7, <1>8 DEF LetIn, v

(* Every step keeps the invariant of every window. *)
LEMMA NextBurst == Typed /\ BurstsInv /\ [Next]_vars => BurstsInv'
<1> SUFFICES ASSUME Typed, BurstsInv, [Next]_vars PROVE BurstsInv'
  OBVIOUS
<1>0. passed' = [k \in Kinds |-> [i \in Ips |-> passed'[k][i]]]
  <2>1. ASSUME NEW k, NEW i, NEW reqs, passed' = [passed EXCEPT ![k][i] = reqs]
        PROVE  passed' = [x \in Kinds |-> [y \in Ips |-> passed'[x][y]]]
    BY <2>1 DEF BurstsInv
  <2>2. ASSUME NEW c \in Clients, HitWindow(c)
        PROVE  passed' = [x \in Kinds |-> [y \in Ips |-> passed'[x][y]]]
    BY <2>1, <2>2 DEF HitWindow, BurstsInv
  <2>3. CASE UNCHANGED passed
    BY <2>3 DEF BurstsInv
  <2> QED BY <2>2, <2>3 DEF Restart, Next, vars, guard, Submit, PublicKeyHit, PublicKeyMiss,
          PublicKeyLoad, HandOut, CheckLock, Decrypt, Verify, RecordFailure, RecordSuccess, LookUp,
          Create, Tick
<1> SUFFICES ASSUME NEW kind \in Kinds, NEW ip \in Ips PROVE BurstInv(kind, ip)'
  BY <1>0 DEF BurstsInv
<1>1. BurstInv(kind, ip)
  BY DEF BurstsInv
<1>2. CASE UNCHANGED <<windows, passed, restarts>> /\ (clock' = clock \/ clock' = clock + 1)
  <2>1. clock \in Nat /\ windows[kind][ip].started \in Nat
    BY DEF Typed, TypeOK
  <2> QED BY <1>1, <1>2, <2>1 DEF BurstInv, Admitted, Apart, Before
<1>3. ASSUME NEW c \in Clients, HitWindow(c) PROVE BurstInv(kind, ip)'
  <2> DEFINE k == call[c].kind
  <2>1. k \in Kinds /\ Ip(c) \in Ips
    BY DEF Typed, TypeOK, Ip, Ips, Range
  <2>2. /\ windows' = [windows EXCEPT ![k][Ip(c)] = Opened(windows[k][Ip(c)], k)]
        /\ clock' = clock /\ restarts' = restarts
        /\ \/ UNCHANGED passed
           \/ /\ ~(Opened(windows[k][Ip(c)], k).count > Rate[k])
              /\ passed' = [passed EXCEPT ![k][Ip(c)] =
                               LetIn(@, Opened(windows[k][Ip(c)], k))]
    BY <1>3 DEF HitWindow
  <2>3. Opened(windows[k][Ip(c)], k).count \in Nat /\ Rate[k] \in Nat
    BY <2>1 DEF Typed, TypeOK, Opened
  <2> HIDE DEF k
  <2>4. CASE kind = k /\ ip = Ip(c)
    <3>1. windows'[kind][ip] = Opened(windows[kind][ip], kind)
      BY <2>1, <2>2, <2>4 DEF Typed, TypeOK
    <3>2. passed \in [Kinds -> [Ips -> {passed[x][y] : x \in Kinds, y \in Ips}]]
      BY DEF BurstsInv
    <3>3. \/ passed'[kind][ip] = passed[kind][ip]
          \/ /\ Opened(windows[kind][ip], kind).count <= Rate[kind]
             /\ passed'[kind][ip] = LetIn(passed[kind][ip], Opened(windows[kind][ip], kind))
      BY <2>1, <2>2, <2>3, <2>4, <3>2
    <3> QED BY <1>1, <2>2, <3>1, <3>3, HitKeeps
  <2>5. CASE ~(kind = k /\ ip = Ip(c))
    <3>1. windows'[kind][ip] = windows[kind][ip]
      BY <2>1, <2>2, <2>5 DEF Typed, TypeOK
    <3>2. passed \in [Kinds -> [Ips -> {passed[x][y] : x \in Kinds, y \in Ips}]]
      BY DEF BurstsInv
    <3>3. passed'[kind][ip] = passed[kind][ip]
      BY <2>1, <2>2, <2>5, <3>2
    <3> QED BY <1>1, <2>2, <3>1, <3>3 DEF BurstInv, Admitted, Apart, Before
  <2> QED BY <2>4, <2>5
<1>4. CASE Restart
  <2>1. /\ windows'[kind][ip] = Fresh /\ restarts' = restarts + 1
        /\ UNCHANGED <<clock, passed>>
    BY <1>4 DEF Restart
  <2>2. restarts \in Nat /\ clock \in Nat
    BY DEF Typed, TypeOK
  <2>3. \A a \in passed[kind][ip] : a.run \in 0..restarts /\ a.run # restarts' /\ Admitted(kind, a)'
    BY <1>1, <2>1, <2>2 DEF BurstInv, Admitted
  <2> QED BY <1>1, <2>1, <2>2, <2>3 DEF Fresh, BurstInv, Apart, Before
<1> QED BY <1>2, <1>3, <1>4 DEF Next, vars, guard, Submit, PublicKeyHit, PublicKeyMiss,
        PublicKeyLoad, HandOut, CheckLock, Decrypt, Verify, RecordFailure, RecordSuccess, LookUp,
        Create, Tick

(* In any span of a window's length an address gets at most one limit for    *)
(* each process past the guard and one less than that on top, whatever the   *)
(* threads do between their critical sections.                               *)
THEOREM BurstsBounded == Spec => []WindowBurst
<1>1. Init => BurstsInv
  BY DEF Init, BurstsInv, BurstInv, Fresh
<1>2. Typed /\ BurstsInv => WindowBurst
  <2> SUFFICES ASSUME Typed, BurstsInv,
                      NEW kind \in Kinds, NEW ip \in Ips, NEW t \in 0..MaxTime
      PROVE  LET span == {r \in passed[kind][ip] : t <= r.at /\ r.at < t + Window[kind]}
                 processes == {r.run : r \in span}
             IN  Cardinality(span) <= (Rate[kind] - 1) + Rate[kind] * Cardinality(processes)
    BY DEF WindowBurst
  <2>1. BurstInv(kind, ip) /\ t \in Nat /\ restarts \in Nat
    BY DEF Typed, TypeOK, BurstsInv
  <2> QED BY <2>1, SpanBounded
<1> QED BY <1>1, <1>2, InitTyped, NextTyped, NextBurst, PTL DEF Spec
=============================================================================
