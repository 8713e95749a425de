-------------------------- MODULE WsClientsProofs --------------------------
(***************************************************************************)
(* What WsClients guarantees for any number of connections, sessions,      *)
(* names and concurrent rename requests.                                   *)
(***************************************************************************)
EXTENDS WsClients, TLAPS

\* What the program counters say about a handler's and a request's locals.
Locals ==
    /\ \A h \in Clients :
        /\ pc[h] \in {"remove", "add", "read", "exit"} => username[h] \in Names
        /\ pc[h] \in {"add", "read", "exit"} => Name[h] \in Names
        /\ pc[h] \in {"new", "remove", "add"} => ~cancelled[h]
        /\ pc[h] \in {"new", "remove"} => Name[h] = None
        /\ Name[h] \in Names /\ h \notin renamed => Name[h] = username[h]
    /\ \A q \in Requests : rpc[q] \in {"check", "rename", "session"} => rarg[q] \in RenameArgs

\* The map: keyed by the client's name, filled by handlers past AddWSClient.
MapInv ==
    /\ KeyIsClientName
    /\ \A n \in Names : WSConns[n] # None => pc[WSConns[n]] \in {"read", "exit", "end"}

\* The properties, with the key at which a live client is found.
ClientInv ==
    /\ GhostOnlyAfterRename
    /\ CancelledIsLeaving
    /\ \A h \in Clients : Live(h) /\ h \notin overwritten => WSConns[Name[h]] = h

Inv == TypeOK /\ Locals /\ MapInv /\ ClientInv

LEMMA InvInit == Init => Inv
BY NoneAssumption
   DEF Init, Inv, TypeOK, Locals, MapInv, ClientInv, KeyIsClientName, GhostOnlyAfterRename,
       CancelledIsLeaving, Registered, Live, Labels, Names

LEMMA AuthStep ==
    ASSUME Inv, NEW h \in Clients, NEW t \in Tokens, Auth(h, t)
    PROVE  Inv'
<1> USE NoneAssumption DEF Auth, HasSession, renameVars, Inv, TypeOK
<1>0. ~Registered(h) /\ Name[h] \notin Names
  BY DEF MapInv, Registered, Locals
<1>1. TypeOK'
  BY DEF Labels
<1>2. Locals'
  BY <1>0 DEF Locals
<1>3. MapInv'
  BY DEF MapInv, KeyIsClientName
<1>4. ClientInv'
  BY <1>0 DEF ClientInv, GhostOnlyAfterRename, CancelledIsLeaving, Registered, Live
<1> QED
  BY <1>1, <1>2, <1>3, <1>4

\* Removing by name: who stays registered is untouched, and who is neither cancelled by it
\* nor was before keeps its entry.
LEMMA Removal ==
    ASSUME Inv, NEW n \in Names, RemoveWSClient(n), NEW h \in Clients
    PROVE  /\ Registered(h)' => Registered(h) /\ cancelled'[h] = cancelled[h]
           /\ ~cancelled'[h] => ~cancelled[h] /\ WSConns[n] # h
<1> USE NoneAssumption DEF RemoveWSClient, Inv, TypeOK
<1>1. ASSUME NEW m \in Names, WSConns'[m] = h
      PROVE  WSConns[m] = h /\ m # n
  BY <1>1
<1>2. ASSUME NEW m \in Names, WSConns[m] = h, m # n
      PROVE  WSConns[n] # h
  BY <1>2 DEF MapInv, KeyIsClientName
<1>3. Registered(h)' => Registered(h) /\ cancelled'[h] = cancelled[h]
  BY <1>1, <1>2 DEF Registered
<1>4. ~cancelled'[h] => ~cancelled[h] /\ WSConns[n] # h
  OBVIOUS
<1> QED
  BY <1>3, <1>4

LEMMA RemoveExistingStep ==
    ASSUME Inv, NEW h \in Clients, RemoveExisting(h)
    PROVE  Inv'
<1> USE NoneAssumption DEF RemoveExisting, RemoveWSClient, renameVars, Inv
<1>1. TypeOK'
  BY DEF TypeOK, Labels, Locals, Names
<1>2. Locals'
  BY DEF Locals, TypeOK, Names, MapInv, Labels
<1>3. MapInv'
  BY DEF MapInv, KeyIsClientName, TypeOK, Locals
<1>4. ClientInv'
  <2>0. username[h] \in Names /\ RemoveWSClient(username[h])
    BY DEF Locals
  <2> HIDE DEF RemoveWSClient
  <2>1. ASSUME NEW k \in Clients, Registered(k)'
        PROVE  Registered(k) /\ cancelled'[k] = cancelled[k] /\ k # h
    <3>1. Registered(k) /\ cancelled'[k] = cancelled[k]
      BY <2>0, <2>1, Removal
    <3> QED
      BY <3>1 DEF MapInv, Registered
  <2>2. GhostOnlyAfterRename' /\ CancelledIsLeaving'
    BY <2>1 DEF ClientInv, GhostOnlyAfterRename, CancelledIsLeaving, TypeOK
  <2>3. ASSUME NEW k \in Clients, Live(k)', k \notin overwritten'
        PROVE  WSConns'[Name'[k]] = k
    <3>1. Live(k) /\ WSConns[username[h]] # k /\ Name'[k] = Name[k]
      BY <2>0, <2>3, Removal DEF Live, TypeOK
    <3>2. WSConns[Name[k]] = k /\ Name[k] \in Names
      BY <2>3, <3>1 DEF ClientInv, Live, Locals
    <3> QED
      BY <3>1, <3>2 DEF RemoveWSClient, TypeOK
  <2> QED
    BY <2>2, <2>3 DEF ClientInv
<1> QED
  BY <1>1, <1>2, <1>3, <1>4

LEMMA AddStep ==
    ASSUME Inv, NEW h \in Clients, AddWSClient(h)
    PROVE  Inv'
<1> USE NoneAssumption DEF AddWSClient, renameVars, Inv
<1>1. TypeOK'
  BY DEF TypeOK, Labels, Locals
<1>2. Locals'
  BY DEF Locals, TypeOK
<1>3. MapInv'
  BY DEF MapInv, KeyIsClientName, TypeOK, Locals
<1>4. ClientInv'
  BY DEF ClientInv, MapInv, KeyIsClientName, TypeOK, Locals, GhostOnlyAfterRename,
         CancelledIsLeaving, Registered, Live
<1> QED
  BY <1>1, <1>2, <1>3, <1>4

LEMMA ReadFailsStep ==
    ASSUME Inv, NEW h \in Clients, ReadFails(h)
    PROVE  Inv'
BY DEF ReadFails, renameVars, Inv, TypeOK, Labels, Locals, MapInv, ClientInv, KeyIsClientName,
       GhostOnlyAfterRename, CancelledIsLeaving, Registered, Live

LEMMA DeferredRemoveStep ==
    ASSUME Inv, NEW h \in Clients, DeferredRemove(h)
    PROVE  Inv'
<1> USE NoneAssumption DEF DeferredRemove, RemoveWSClient, renameVars, Inv
<1>1. TypeOK'
  BY DEF TypeOK, Labels, Locals
<1>2. Locals'
  BY DEF Locals, TypeOK, MapInv
<1>3. MapInv'
  BY DEF MapInv, KeyIsClientName, TypeOK, Locals
<1>4. ClientInv'
  <2>0. username[h] \in Names /\ RemoveWSClient(username[h])
    BY DEF Locals
  <2> HIDE DEF RemoveWSClient
  <2>1. ASSUME NEW k \in Clients, Registered(k)'
        PROVE  Registered(k) /\ cancelled'[k] = cancelled[k] /\ (k = h => h \in renamed)
    <3>1. Registered(k) /\ cancelled'[k] = cancelled[k]
      BY <2>0, <2>1, Removal
    <3>2. ASSUME k = h, h \notin renamed
          PROVE  FALSE
      <4>1. PICK m \in Names : WSConns'[m] = h
        BY <2>1, <3>2 DEF Registered
      <4>2. WSConns[m] = h /\ m # username[h]
        BY <4>1 DEF RemoveWSClient, TypeOK
      <4>3. Name[h] = m
        BY <4>2 DEF MapInv, KeyIsClientName
      <4> QED
        BY <3>2, <4>2, <4>3 DEF Locals
    <3> QED
      BY <3>1, <3>2
  <2>2. GhostOnlyAfterRename' /\ CancelledIsLeaving'
    BY <2>1 DEF ClientInv, GhostOnlyAfterRename, CancelledIsLeaving, TypeOK
  <2>3. ASSUME NEW k \in Clients, Live(k)', k \notin overwritten'
        PROVE  WSConns'[Name'[k]] = k
    <3>1. Live(k) /\ WSConns[username[h]] # k /\ Name'[k] = Name[k]
      BY <2>0, <2>3, Removal DEF Live, TypeOK
    <3>2. WSConns[Name[k]] = k /\ Name[k] \in Names
      BY <2>3, <3>1 DEF ClientInv, Live, Locals
    <3> QED
      BY <3>1, <3>2 DEF RemoveWSClient, TypeOK
  <2> QED
    BY <2>2, <2>3 DEF ClientInv
<1> QED
  BY <1>1, <1>2, <1>3, <1>4

LEMMA SessionSteps ==
    ASSUME Inv, NEW t \in Tokens, Logout(t) \/ \E n \in Accounts : Login(t, n)
    PROVE  Inv'
BY DEF Logout, Login, renameVars, Inv, TypeOK, Locals, MapInv, ClientInv, KeyIsClientName,
       GhostOnlyAfterRename, CancelledIsLeaving, Registered, Live, Names

LEMMA RenameStartStep ==
    ASSUME Inv, NEW q \in Requests, NEW t \in Tokens, NEW new \in Names, RenameStart(q, t, new)
    PROVE  Inv'
BY DEF RenameStart, HasSession, RenameArgs, Inv, TypeOK, Locals, MapInv, ClientInv,
       KeyIsClientName, GhostOnlyAfterRename, CancelledIsLeaving, Registered, Live

LEMMA IsNameTakenStep ==
    ASSUME Inv, NEW q \in Requests, IsNameTaken(q)
    PROVE  Inv'
BY DEF IsNameTaken, Inv, TypeOK, Locals, MapInv, ClientInv, KeyIsClientName,
       GhostOnlyAfterRename, CancelledIsLeaving, Registered, Live

LEMMA RenameStep ==
    ASSUME Inv, NEW q \in Requests, RenameWSClient(q)
    PROVE  Inv'
<1> USE NoneAssumption DEF Inv
<1>1. CASE UNCHANGED <<WSConns, Name, renamed>>
  BY <1>1 DEF RenameWSClient, TypeOK, Locals, MapInv, ClientInv, KeyIsClientName,
         GhostOnlyAfterRename, CancelledIsLeaving, Registered, Live
<1>2. CASE CanRename(rarg[q].old, rarg[q].new)
  <2> DEFINE old == rarg[q].old
             new == rarg[q].new
             d == WSConns[old]
  <2>1. /\ old \in Names /\ new \in Names /\ old # new /\ d \in Clients /\ WSConns[new] = None
        /\ Name[d] = old /\ pc[d] \in {"read", "exit", "end"}
    BY <1>2 DEF RenameWSClient, CanRename, Locals, RenameArgs, TypeOK, MapInv, KeyIsClientName
  <2>2. /\ WSConns' = [WSConns EXCEPT ![old] = None, ![new] = d]
        /\ Name' = [Name EXCEPT ![d] = new]
        /\ renamed' = renamed \cup {d}
        /\ rpc' = [rpc EXCEPT ![q] = "session"]
        /\ UNCHANGED <<username, cancelled, pc, session, rarg, overwritten>>
    BY <1>2, <2>1 DEF RenameWSClient, Moved, TypeOK
  <2> HIDE DEF old, new, d
  <2>3. TypeOK'
    BY <2>1, <2>2 DEF TypeOK
  <2>4. Locals'
    <3>1. \A p \in Requests : rpc'[p] \in {"check", "rename", "session"} => rarg'[p] \in RenameArgs
      BY <2>2 DEF Locals, TypeOK, RenameWSClient
    <3> QED
      BY <2>1, <2>2, <3>1 DEF Locals, TypeOK
  <2>5. MapInv'
    BY <2>1, <2>2 DEF MapInv, KeyIsClientName, TypeOK
  <2>6. ClientInv'
    <3>1. ASSUME NEW h \in Clients, Registered(h)'
          PROVE  Registered(h)
      <4>1. PICK m \in Names : WSConns'[m] = h
        BY <3>1 DEF Registered
      <4> QED
        BY <2>1, <2>2, <4>1 DEF Registered, TypeOK, d
    <3>2. GhostOnlyAfterRename' /\ CancelledIsLeaving'
      BY <2>2, <3>1 DEF ClientInv, GhostOnlyAfterRename, CancelledIsLeaving
    <3>3. ASSUME NEW h \in Clients, Live(h)', h \notin overwritten'
          PROVE  WSConns'[Name'[h]] = h
      <4>1. Live(h) /\ h \notin overwritten /\ Name[h] \in Names /\ WSConns[Name[h]] = h
        BY <2>2, <3>3 DEF ClientInv, Live, Locals
      <4>2. CASE h = d
        BY <2>1, <2>2, <4>2 DEF TypeOK
      <4>3. CASE h # d
        <5>1. Name'[h] = Name[h] /\ Name[h] # old /\ Name[h] # new
          BY <2>1, <2>2, <4>1, <4>3 DEF TypeOK, d
        <5> QED
          BY <2>1, <2>2, <4>1, <5>1 DEF TypeOK
      <4> QED
        BY <4>2, <4>3
    <3> QED
      BY <3>2, <3>3 DEF ClientInv
  <2> QED
    BY <2>3, <2>4, <2>5, <2>6
<1> QED
  BY <1>1, <1>2 DEF RenameWSClient

LEMMA RenameSessionStep ==
    ASSUME Inv, NEW q \in Requests, RenameSession(q)
    PROVE  Inv'
BY DEF RenameSession, RenameArgs, Inv, TypeOK, Locals, MapInv, ClientInv, KeyIsClientName,
       GhostOnlyAfterRename, CancelledIsLeaving, Registered, Live

LEMMA InvStep == Inv /\ [Next]_vars => Inv'
<1> SUFFICES ASSUME Inv, [Next]_vars
             PROVE  Inv'
  OBVIOUS
<1>1. CASE UNCHANGED vars
  BY <1>1 DEF vars, Inv, TypeOK, Locals, MapInv, ClientInv, KeyIsClientName,
     GhostOnlyAfterRename, CancelledIsLeaving, Registered, Live
<1>2. ASSUME NEW h \in Clients, handleWebSocket(h)
      PROVE  Inv'
  BY <1>2, AuthStep, RemoveExistingStep, AddStep, ReadFailsStep, DeferredRemoveStep
     DEF handleWebSocket
<1>3. ASSUME NEW q \in Requests, handleRename(q)
      PROVE  Inv'
  BY <1>3, RenameStartStep, IsNameTakenStep, RenameStep, RenameSessionStep DEF handleRename
<1> QED
  BY <1>1, <1>2, <1>3, SessionSteps DEF Next

\* However many handlers and rename requests of the same user overlap: a client is stored
\* under its own name, a finished handler leaves a ghost only after a rename, and a
\* cancelled client is out of WSConns or on its way out.
THEOREM RegistrySafety ==
    Spec => [](TypeOK /\ KeyIsClientName /\ GhostOnlyAfterRename /\ CancelledIsLeaving)
<1>1. Inv => TypeOK /\ KeyIsClientName /\ GhostOnlyAfterRename /\ CancelledIsLeaving
  BY DEF Inv, MapInv, ClientInv
<1> QED
  BY <1>1, InvInit, InvStep, PTL DEF Spec

\* A connection that works can stop receiving only because AddWSClient of another handler
\* stored its client over it.
THEOREM LiveReceives == Spec => []LiveIsRegistered
<1>1. Inv => LiveIsRegistered
  BY DEF Inv, ClientInv, LiveIsRegistered, Registered, Live, Locals
<1> QED
  BY <1>1, InvInit, InvStep, PTL DEF Spec
=============================================================================
