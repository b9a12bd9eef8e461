-------------------------- MODULE ExporterServiceProofs --------------------------
(***************************************************************************)
(* Proofs about ExporterService and ExporterAuth: whatever the number of   *)
(* processes, only the one that has the database serves, and whoever is    *)
(* let in has been vouched for.                                            *)
(***************************************************************************)
EXTENDS ExporterAuth, TLAPS

USE ServiceAssumption

\* Every step of a process, with what it needs spelled out.
ServiceInv == ServiceTypeOK /\ OwnerServes

LEMMA ServiceInitInv == ServiceInit => ServiceInv
  <1> SUFFICES ASSUME ServiceInit PROVE ServiceInv
    OBVIOUS
  <1>1. ServiceTypeOK
    BY DEF ServiceInit, ServiceTypeOK, Stages, Config, NoConfig
  <1>2. OwnerServes
    BY DEF ServiceInit, OwnerServes
  <1> QED BY <1>1, <1>2 DEF ServiceInv

\* The end of a process takes its lock and its port with it.
LEMMA EndInv ==
    ASSUME NEW p \in Procs, ServiceInv, End(p),
           UNCHANGED disk, order' \in {"up", "down"}, events' \in 0 .. MaxEvents
    PROVE  ServiceInv'
  <1>1. ServiceTypeOK'
    BY DEF ServiceInv, ServiceTypeOK, OwnerServes, End, Enter, disk, Stages, Config, NoConfig
  <1>2. OwnerServes'
    BY DEF ServiceInv, ServiceTypeOK, OwnerServes, End, Enter
  <1> QED BY <1>1, <1>2 DEF ServiceInv

\* An event is counted.
LEMMA EventCounted == ASSUME ServiceTypeOK, Event PROVE events' \in 0 .. MaxEvents
  BY DEF ServiceTypeOK, Event

LEMMA ServiceStepInv == ServiceInv /\ ServiceNext => ServiceInv'
  <1> SUFFICES ASSUME ServiceInv, ServiceNext PROVE ServiceInv'
    OBVIOUS
  <1> USE DEF ServiceInv, ServiceTypeOK, OwnerServes, Enter, disk, processes, Stages, Config, NoConfig
  <1>1. ASSUME NEW p \in Procs, ParseConfig(p) PROVE ServiceInv'
    <2>1. CASE End(p)
      BY <1>1, <2>1, EndInv DEF ParseConfig, Valid
    <2>2. CASE ~ End(p)
      <3>1. /\ file.secret \in Secrets /\ Endpoint \in Managers
            /\ pc' = [pc EXCEPT ![p] = "database"]
            /\ conf' = [conf EXCEPT ![p] = [secret |-> file.secret, endpoint |-> Endpoint]]
            /\ UNCHANGED <<lock, port, file, certs, managerIP, order, events>>
        BY <1>1, <2>2 DEF ParseConfig, Valid, Endpoint
      <3>2. [secret |-> file.secret, endpoint |-> Endpoint] \in Config
        BY <3>1
      <3>3. ServiceTypeOK'
        BY <3>1, <3>2
      <3>4. OwnerServes'
        BY <1>1, <3>1 DEF ParseConfig, Valid
      <3> QED BY <3>3, <3>4
    <2> QED BY <2>1, <2>2
  <1>2. ASSUME NEW p \in Procs, OpenDatabase(p) PROVE ServiceInv'
    <2>1. CASE End(p)
      BY <1>2, <2>1, EndInv DEF OpenDatabase
    <2>2. CASE ~ End(p)
      BY <1>2, <2>2 DEF OpenDatabase
    <2> QED BY <2>1, <2>2
  <1>3. ASSUME NEW p \in Procs, StartServer(p) PROVE ServiceInv'
    <2>1. CASE End(p)
      BY <1>3, <2>1, EndInv DEF StartServer
    <2>2. CASE ~ End(p)
      BY <1>3, <2>2 DEF StartServer
    <2> QED BY <2>1, <2>2
  <1>4. ASSUME NEW p \in Procs, AwaitStop(p) PROVE ServiceInv'
    BY <1>4 DEF AwaitStop
  <1>5. ASSUME NEW p \in Procs, ListenAndServeTLS(p) PROVE ServiceInv'
    <2>1. CASE End(p)
      BY <1>5, <2>1, EndInv DEF ListenAndServeTLS
    <2>2. CASE ~ End(p)
      BY <1>5, <2>2 DEF ListenAndServeTLS
    <2> QED BY <2>1, <2>2
  <1>6. ASSUME NEW p \in Procs, Signal(p) \/ Crash(p) PROVE ServiceInv'
    BY <1>6, EndInv, EventCounted DEF Signal, Crash
  <1>7. ASSUME NEW p \in Procs, StartByHand(p) PROVE ServiceInv'
    BY <1>7, EventCounted DEF StartByHand
  <1>8. CASE Restart
    BY <1>8 DEF Restart
  <1>9. CASE Stop
    <2>1. CASE End(Service)
      BY <1>9, <2>1, EndInv, EventCounted DEF Stop
    <2>2. CASE ~ End(Service)
      BY <1>9, <2>2, EventCounted DEF Stop
    <2> QED BY <2>1, <2>2
  <1>10. CASE Kill
    BY <1>10, EndInv DEF Kill
  <1>11. CASE Start
    BY <1>11 DEF Start
  <1>12. CASE EditConfig \/ ReplaceCerts \/ ChangeManager
    BY <1>12, EventCounted DEF EditConfig, ReplaceCerts, ChangeManager
  <1>13. CASE TakePort
    BY <1>13, EventCounted DEF TakePort
  <1>14. CASE FreePort
    BY <1>14 DEF FreePort
  <1> QED
    BY <1>1, <1>2, <1>3, <1>4, <1>5, <1>6, <1>7, <1>8, <1>9, <1>10, <1>11, <1>12, <1>13, <1>14
    DEF ServiceNext, Main

-----------------------------------------------------------------------------
\* What is known of a login in progress and of a token that was given out.
LoginOK(l) ==
    LET m == conf[l.proc].endpoint IN
    l.vouched => left[m][l.user] = None \/ l.asked <= left[m][l.user]

TokenOK(t) ==
    /\ t.exp = t.issued + TTL
    /\ left[t.by][t.user] # None => t.asked <= left[t.by][t.user]

AuthInv ==
    /\ TypeOK
    /\ OwnerServes
    /\ \A l \in BagToSet(logins) : LoginOK(l)
    /\ \A t \in tokens : TokenOK(t)

\* A process that goes on serving keeps the configuration it has read.
LEMMA ServingKeepsConfig ==
    ASSUME ServiceInv, ServiceNext, NEW p \in Procs, port = p, port' = p
    PROVE  conf'[p] = conf[p]
  <1>1. pc[p] \in {"tls", "starting", "waiting"} /\ p # None
    BY DEF ServiceInv, OwnerServes
  <1>2. ASSUME NEW q \in Procs, End(q) PROVE conf'[p] = conf[p]
    BY <1>2 DEF End, ServiceInv, ServiceTypeOK
  <1>3. ASSUME NEW q \in Procs, Main(q) \/ ListenAndServeTLS(q) \/ Signal(q) \/ StartByHand(q) \/ Crash(q)
        PROVE  conf'[p] = conf[p]
    BY <1>1, <1>2, <1>3
    DEF Main, ParseConfig, OpenDatabase, StartServer, AwaitStop, ListenAndServeTLS,
        Signal, StartByHand, Crash, ServiceInv, ServiceTypeOK
  <1>4. CASE Restart \/ Stop \/ Kill \/ Start
    BY <1>2, <1>4 DEF Restart, Stop, Kill, Start, processes
  <1>5. CASE EditConfig \/ ReplaceCerts \/ ChangeManager \/ TakePort \/ FreePort
    BY <1>5 DEF EditConfig, ReplaceCerts, ChangeManager, TakePort, FreePort, processes
  <1> QED BY <1>3, <1>4, <1>5 DEF ServiceNext

USE AuthAssumption

\* A bag with one element more or less.
LEMMA BagsOK ==
    ASSUME NEW B, IsABag(B), NEW x
    PROVE  /\ IsABag(BagAdd(B, x)) /\ BagToSet(BagAdd(B, x)) = BagToSet(B) \cup {x}
           /\ IsABag(BagRemove(B, x)) /\ BagToSet(BagRemove(B, x)) \subseteq BagToSet(B)
  <1>1. \A e \in DOMAIN B : B[e] \in Nat /\ B[e] > 0
    BY DEF IsABag
  <1>2. IsABag(BagAdd(B, x)) /\ BagToSet(BagAdd(B, x)) = BagToSet(B) \cup {x}
    BY <1>1 DEF IsABag, BagAdd, BagToSet
  <1>3. CASE x \in DOMAIN B /\ B[x] = 1
    BY <1>1, <1>2, <1>3 DEF IsABag, BagRemove, BagToSet
  <1>4. CASE x \in DOMAIN B /\ B[x] # 1
    <2> DEFINE C == [e \in DOMAIN B |-> IF e = x THEN B[e] - 1 ELSE B[e]]
    <2>1. BagRemove(B, x) = C
      BY <1>4 DEF BagRemove
    <2>2. \A e \in DOMAIN B : C[e] \in {n \in Nat : n > 0}
      BY <1>1, <1>4
    <2>3. DOMAIN C = DOMAIN B /\ C \in [DOMAIN B -> {n \in Nat : n > 0}]
      BY <2>2
    <2>4. IsABag(C) /\ BagToSet(C) = BagToSet(B)
      BY <2>3 DEF IsABag, BagToSet
    <2> QED  BY <1>2, <2>1, <2>4
  <1>5. CASE x \notin DOMAIN B
    BY <1>2, <1>5 DEF BagRemove, BagToSet
  <1> QED  BY <1>2, <1>3, <1>4, <1>5

LEMMA AuthInitInv == Init => AuthInv
  <1> SUFFICES ASSUME Init PROVE AuthInv
    OBVIOUS
  <1>1. ServiceInv
    BY ServiceInitInv DEF Init
  <1>2. IsABag(logins) /\ BagToSet(logins) = {} /\ tokens = {}
    BY DEF Init, IsABag, EmptyBag, SetToBag, BagToSet
  <1>3. TypeOK
    BY <1>1, <1>2 DEF Init, TypeOK, ServiceInv
  <1> QED BY <1>1, <1>2, <1>3 DEF AuthInv, ServiceInv

LEMMA ServiceKeepsAuth == AuthInv /\ ServiceNext /\ WithLogins => AuthInv'
  <1> SUFFICES ASSUME AuthInv, ServiceNext, WithLogins PROVE AuthInv'
    OBVIOUS
  <1>1. ServiceInv'
    BY ServiceStepInv DEF AuthInv, TypeOK, ServiceInv
  <1>5. /\ IsABag(logins') /\ BagToSet(logins') \subseteq BagToSet(logins)
        /\ \A l \in BagToSet(logins') : port' = l.proc
    BY DEF AuthInv, TypeOK, WithLogins, IsABag, BagToSet
  <1>2. TypeOK'
    BY <1>1, <1>5 DEF AuthInv, TypeOK, ServiceInv, WithLogins
  <1>3. ASSUME NEW l \in BagToSet(logins') PROVE LoginOK(l)'
    <2>1. l \in BagToSet(logins) /\ l.proc \in Procs /\ port = l.proc /\ port' = l.proc
      BY <1>3, <1>5 DEF AuthInv, TypeOK, Login
    <2>2. conf'[l.proc] = conf[l.proc]
      BY <2>1, ServingKeepsConfig DEF AuthInv, TypeOK, ServiceInv
    <2> QED BY <2>1, <2>2 DEF LoginOK, AuthInv, WithLogins
  <1>4. ASSUME NEW t \in tokens' PROVE TokenOK(t)'
    BY <1>4 DEF TokenOK, AuthInv, WithLogins
  <1>6. \A l \in BagToSet(logins)' : LoginOK(l)'
    BY <1>3 DEF BagToSet
  <1> QED BY <1>1, <1>2, <1>4, <1>6 DEF AuthInv, ServiceInv

\* A login that began in time stays so, whichever of its fields change.
LEMMA LoginStepInv ==
    ASSUME AuthInv, NEW p \in Procs, NEW u \in Users, LoginHandler(p, u)
    PROVE  AuthInv'
  <1> DEFINE new == [user |-> u, proc |-> p, asked |-> now, vouched |-> FALSE]
  <1>0. /\ logins' = BagAdd(logins, new) /\ port = p
        /\ UNCHANGED <<pc, conf, lock, port, file, certs, managerIP, order, events>>
        /\ UNCHANGED <<now, left, tokens>>
    BY DEF LoginHandler, service
  <1>1. /\ IsABag(logins') /\ BagToSet(logins)' = BagToSet(logins) \cup {new} /\ port = p
        /\ UNCHANGED <<pc, conf, lock, port, file, certs, managerIP, order, events>>
        /\ UNCHANGED <<now, left, tokens>>
    <2>1. IsABag(logins)
      BY DEF AuthInv, TypeOK
    <2> HIDE DEF new
    <2>2. IsABag(logins') /\ BagToSet(logins') = BagToSet(logins) \cup {new}
      BY <1>0, <2>1, BagsOK
    <2> QED BY <1>0, <2>2 DEF BagToSet
  <1>2. ServiceTypeOK' /\ OwnerServes'
    BY <1>1 DEF AuthInv, TypeOK, ServiceTypeOK, OwnerServes
  <1>3. TypeOK'
    <2>1. now \in 1 .. MaxTime /\ new \in Login /\ new.proc = port /\ new.asked \in 1 .. now
      BY <1>1 DEF AuthInv, TypeOK, Login
    <2> HIDE DEF new
    <2> QED BY <1>1, <1>2, <2>1 DEF AuthInv, TypeOK
  <1>4. \A l \in BagToSet(logins)' : LoginOK(l)'
    BY <1>1 DEF AuthInv, LoginOK
  <1>5. \A t \in tokens' : TokenOK(t)'
    BY <1>1 DEF AuthInv, TokenOK
  <1> QED BY <1>2, <1>3, <1>4, <1>5 DEF AuthInv

\* The manager vouches only for an account it still has.
LEMMA AttemptInv ==
    ASSUME AuthInv, NEW l \in BagToSet(logins), AttemptRequest(l)
    PROVE  AuthInv'
  <1> DEFINE new == [l EXCEPT !.vouched = TRUE]
  <1>1. /\ UNCHANGED <<pc, conf, lock, port, file, certs, managerIP, order, events>>
        /\ UNCHANGED <<now, left, tokens>>
    BY DEF AttemptRequest, service
  <1>2. ServiceTypeOK' /\ OwnerServes'
    BY <1>1 DEF AuthInv, TypeOK, ServiceTypeOK, OwnerServes
  <1>3. \A t \in tokens' : TokenOK(t)'
    BY <1>1 DEF AuthInv, TokenOK
  <1>4. l \in Login /\ l.proc = port /\ l.asked \in 1 .. now
    BY DEF AuthInv, TypeOK
  <1>5. /\ new \in Login /\ new.proc = l.proc /\ new.user = l.user
        /\ new.asked = l.asked /\ new.vouched = TRUE
    BY <1>4 DEF Login
  <1>8. IsABag(logins) /\ IsABag(BagRemove(logins, l)) /\ BagToSet(BagRemove(logins, l)) \subseteq BagToSet(logins)
    BY BagsOK DEF AuthInv, TypeOK
  <1>6. CASE left[conf[l.proc].endpoint][l.user] = None /\ logins' = Vouched(l)
    <2>1. IsABag(logins') /\ BagToSet(logins)' \subseteq BagToSet(logins) \cup {new}
      <3>1. logins' = BagAdd(BagRemove(logins, l), new)
        BY <1>6 DEF Vouched
      <3> HIDE DEF new
      <3>2. /\ IsABag(BagAdd(BagRemove(logins, l), new))
            /\ BagToSet(BagAdd(BagRemove(logins, l), new)) = BagToSet(BagRemove(logins, l)) \cup {new}
        BY <1>8, BagsOK
      <3> QED BY <1>8, <3>1, <3>2 DEF BagToSet
    <2>2. TypeOK'
      BY <1>1, <1>2, <1>4, <1>5, <2>1 DEF AuthInv, TypeOK
    <2>3. LoginOK(new)'
      BY <1>1, <1>5, <1>6 DEF LoginOK
    <2>4. \A k \in BagToSet(logins)' : LoginOK(k)'
      BY <1>1, <2>1, <2>3 DEF AuthInv, LoginOK
    <2> QED BY <1>2, <1>3, <2>2, <2>4 DEF AuthInv
  <1>7. CASE logins' = BagRemove(logins, l)
    <2>1. IsABag(logins') /\ BagToSet(logins)' \subseteq BagToSet(logins)
      BY <1>7, <1>8 DEF BagToSet
    <2>2. TypeOK'
      BY <1>1, <1>2, <2>1 DEF AuthInv, TypeOK
    <2>3. \A k \in BagToSet(logins)' : LoginOK(k)'
      BY <1>1, <2>1 DEF AuthInv, LoginOK
    <2> QED BY <1>2, <1>3, <2>2, <2>3 DEF AuthInv
  <1> QED BY <1>6, <1>7 DEF AttemptRequest

\* A token inherits from its login when that began.
LEMMA IssueInv ==
    ASSUME AuthInv, NEW l \in BagToSet(logins), IssueToken(l)
    PROVE  AuthInv'
  <1> DEFINE m   == conf[l.proc].endpoint
             new == [user |-> l.user, secret |-> conf[l.proc].secret, exp |-> now + TTL,
                     asked |-> l.asked, issued |-> now, by |-> m]
  <1>1. /\ UNCHANGED <<pc, conf, lock, port, file, certs, managerIP, order, events>>
        /\ UNCHANGED <<now, left>>
        /\ tokens' = tokens \cup {new} /\ logins' = BagRemove(logins, l) /\ l.vouched
    BY DEF IssueToken, service
  <1>11. IsABag(logins') /\ BagToSet(logins)' \subseteq BagToSet(logins)
    BY <1>1, BagsOK DEF AuthInv, TypeOK, BagToSet
  <1>2. ServiceTypeOK' /\ OwnerServes'
    BY <1>1 DEF AuthInv, TypeOK, ServiceTypeOK, OwnerServes
  <1>3. \A k \in BagToSet(logins)' : LoginOK(k)'
    BY <1>1, <1>11 DEF AuthInv, LoginOK
  <1>4. l \in Login /\ l.proc = port /\ l.asked \in 1 .. now /\ now \in 1 .. MaxTime
    BY DEF AuthInv, TypeOK
  <1>5. conf[l.proc].secret \in Secrets /\ m \in Managers
    BY <1>4 DEF AuthInv, TypeOK, ServiceTypeOK, OwnerServes, Login
  <1>6. new \in Token /\ new.issued \in 1 .. now /\ new.asked \in 1 .. new.issued
    BY <1>4, <1>5 DEF Token, Login
  <1>7. TypeOK'
    BY <1>1, <1>2, <1>6, <1>11 DEF AuthInv, TypeOK
  <1>8. LoginOK(l)
    BY DEF AuthInv
  <1>9. TokenOK(new)'
    BY <1>1, <1>8 DEF LoginOK, TokenOK
  <1>10. \A t \in tokens' : TokenOK(t)'
    BY <1>1, <1>9 DEF AuthInv, TokenOK
  <1> QED BY <1>2, <1>3, <1>7, <1>10 DEF AuthInv

\* An account is removed now, and whatever was asked was asked until now.
LEMMA RemoveInv ==
    ASSUME AuthInv, NEW m \in Managers, NEW u \in Users, RemoveAccount(m, u)
    PROVE  AuthInv'
  <1>1. /\ UNCHANGED <<pc, conf, lock, port, file, certs, managerIP, order, now, logins, tokens>>
        /\ left' = [left EXCEPT ![m][u] = now] /\ left[m][u] = None /\ Event
    BY DEF RemoveAccount
  <1>2. ServiceTypeOK' /\ OwnerServes'
    BY <1>1, EventCounted DEF AuthInv, TypeOK, ServiceTypeOK, OwnerServes
  <1>3. TypeOK'
    BY <1>1, <1>2 DEF AuthInv, TypeOK, BagToSet, IsABag
  <1>4. \A k \in Managers, v \in Users : left'[k][v] = IF k = m /\ v = u THEN now ELSE left[k][v]
    BY <1>1 DEF AuthInv, TypeOK
  <1>7. logins' = logins /\ BagToSet(logins)' = BagToSet(logins)
    BY <1>1 DEF BagToSet
  <1>5. ASSUME NEW l \in BagToSet(logins) PROVE LoginOK(l)'
    <2>1. /\ LoginOK(l) /\ l.user \in Users /\ l.proc = port /\ l.proc \in Procs
          /\ l.asked \in 1 .. now /\ now \in 1 .. MaxTime
      BY DEF AuthInv, TypeOK, Login
    <2>2. conf[l.proc].endpoint \in Managers
      BY <2>1 DEF AuthInv, TypeOK, ServiceTypeOK, OwnerServes
    <2> QED BY <1>1, <1>4, <2>1, <2>2 DEF LoginOK
  <1>6. ASSUME NEW t \in tokens PROVE TokenOK(t)'
    <2>1. /\ TokenOK(t) /\ t.user \in Users /\ t.by \in Managers
          /\ t.asked \in 1 .. t.issued /\ t.issued \in 1 .. now /\ now \in 1 .. MaxTime
      BY DEF AuthInv, TypeOK, Token
    <2> QED BY <1>1, <1>4, <2>1 DEF TokenOK
  <1> QED BY <1>1, <1>2, <1>3, <1>5, <1>6, <1>7 DEF AuthInv

LEMMA TickInv == AuthInv /\ Tick => AuthInv'
  <1> SUFFICES ASSUME AuthInv, Tick PROVE AuthInv'
    OBVIOUS
  <1>1. /\ UNCHANGED <<pc, conf, lock, port, file, certs, managerIP, order, events>>
        /\ UNCHANGED <<left, logins, tokens>> /\ now' = now + 1 /\ now < MaxTime
    BY DEF Tick, service
  <1>2. ServiceTypeOK' /\ OwnerServes'
    BY <1>1 DEF AuthInv, TypeOK, ServiceTypeOK, OwnerServes
  <1>3. now \in 1 .. MaxTime /\ now' \in 1 .. MaxTime /\ 1 .. now \subseteq 1 .. now'
    BY <1>1 DEF AuthInv, TypeOK
  <1>4. TypeOK'
    BY <1>1, <1>2, <1>3 DEF AuthInv, TypeOK, BagToSet, IsABag
  <1>5. (\A l \in BagToSet(logins)' : LoginOK(l)') /\ (\A t \in tokens' : TokenOK(t)')
    BY <1>1 DEF AuthInv, LoginOK, TokenOK, BagToSet
  <1> QED BY <1>2, <1>4, <1>5 DEF AuthInv

LEMMA AuthStutter == AuthInv /\ UNCHANGED vars => AuthInv'
  <1> SUFFICES ASSUME AuthInv, UNCHANGED vars PROVE AuthInv'
    OBVIOUS
  <1>1. TypeOK' /\ OwnerServes'
    BY DEF AuthInv, TypeOK, ServiceTypeOK, OwnerServes, vars, BagToSet, IsABag
  <1>2. (\A l \in BagToSet(logins)' : LoginOK(l)') /\ (\A t \in tokens' : TokenOK(t)')
    BY DEF AuthInv, LoginOK, TokenOK, vars, BagToSet
  <1> QED BY <1>1, <1>2 DEF AuthInv

\* AuthInv is an invariant, for every number of processes, users and managers.
THEOREM AuthInvariant == Spec => []AuthInv
  <1>1. AuthInv /\ [Next]_vars => AuthInv'
    BY ServiceKeepsAuth, LoginStepInv, AttemptInv, IssueInv, RemoveInv, TickInv, AuthStutter
    DEF Next
  <1> QED BY <1>1, AuthInitInv, PTL DEF Spec

\* Every variable keeps its type.
THEOREM ServiceTypes == Spec => []TypeOK
  <1>1. AuthInv => TypeOK
    BY DEF AuthInv
  <1> QED BY <1>1, AuthInvariant, PTL

\* However processes are started, stopped, killed and restarted, and however the
\* configuration changes, only the process that has the database serves.
THEOREM ServiceOwner == Spec => []OwnerServes
  <1>1. AuthInv => OwnerServes
    BY DEF AuthInv
  <1> QED BY <1>1, AuthInvariant, PTL

\* Nobody is let in on a login that began after his account was removed, or on
\* one that is longer ago than TTL.
THEOREM AccessRecent == Spec => []AccessIsRecent
  <1>1. AuthInv => AccessIsRecent
    <2> SUFFICES ASSUME AuthInv, NEW p \in Procs, NEW t \in tokens, Accepts(p, t)
                 PROVE  /\ now <= t.issued + TTL
                        /\ left[t.by][t.user] # None => t.asked <= left[t.by][t.user]
      BY DEF AccessIsRecent
    <2>1. TokenOK(t)
      BY DEF AuthInv
    <2> QED BY <2>1 DEF TokenOK, Accepts
  <1> QED BY <1>1, AuthInvariant, PTL
=============================================================================
