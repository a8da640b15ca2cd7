-------------------------- MODULE Sessions_proofs ---------------------------
(***************************************************************************)
(* The roles of the web-socket clients, for every set of them.             *)
(***************************************************************************)
EXTENDS Sessions, LeastNumber, SequenceTheorems, TLAPS

SessionsInv ==
    /\ listed \subseteq Clients
    /\ told \in [Clients -> Roles] /\ phase \in [Clients -> Phases]
    /\ toTell \in [Clients -> SUBSET Clients]
    /\ RolesSettle

LEMMA SessionsStart == SessionsInit => SessionsInv
  BY DEF SessionsInit, SessionsInv, RolesSettle, Roles, Phases

(* A handler that starts _broadcast_roles will tell every listed client.   *)
LEMMA BroadcastSettles ==
  ASSUME SessionsInv, NEW h \in Clients, NEW to \in Phases,
         Broadcast(h, to), listed' \subseteq Clients, told' \in [Clients -> Roles]
  PROVE  SessionsInv'
<1>1. /\ phase' \in [Clients -> Phases]
      /\ toTell' \in [Clients -> SUBSET Clients] /\ toTell'[h] = listed'
  BY DEF Broadcast, SessionsInv
<1>2. RolesSettle'
  BY <1>1 DEF RolesSettle
<1>3. QED
  BY <1>1, <1>2 DEF SessionsInv

LEMMA SessionsStep == SessionsInv /\ [SessionsNext]_sessionVars => SessionsInv'
<1> SUFFICES ASSUME SessionsInv, [SessionsNext]_sessionVars PROVE SessionsInv'
  OBVIOUS
<1>1. ASSUME NEW c \in Clients, Connect(c) PROVE SessionsInv'
  <2>1. /\ listed' = listed \cup {c} /\ told' = told /\ toTell' = toTell
        /\ phase' = [phase EXCEPT ![c] = "greeting"]
        /\ helm' = IF helm = Nobody /\ ~Readonly THEN c ELSE helm
    BY <1>1 DEF Connect
  <2>2. \A d \in Clients \ {c} : Role(d)' = Role(d)
    BY <2>1, SessionsAssumption DEF Role
  <2>3. RolesSettle'
    BY <2>1, <2>2 DEF RolesSettle, SessionsInv
  <2>4. QED
    BY <2>1, <2>3 DEF SessionsInv, Phases
<1>2. ASSUME NEW c \in Clients, Greet(c) PROVE SessionsInv'
  BY <1>2, BroadcastSettles DEF Greet, Phases, SessionsInv
<1>3. ASSUME NEW c \in Clients, EveryoneTold(c) PROVE SessionsInv'
  <2>1. /\ UNCHANGED <<listed, helm, told, toTell>>
        /\ phase[c] # "greeting"
        /\ phase' = [phase EXCEPT ![c] = IF @ = "telling" THEN "reading" ELSE "away"]
    BY <1>3 DEF EveryoneTold
  <2>2. phase' \in [Clients -> Phases]
    BY <2>1 DEF Phases, SessionsInv
  <2>3. \A d \in Clients : phase[d] = "greeting" => phase'[d] = "greeting"
    BY <2>1 DEF SessionsInv
  <2>4. RolesSettle'
    BY <2>1, <2>3 DEF RolesSettle, Role, SessionsInv
  <2>5. QED
    BY <2>1, <2>2, <2>4 DEF SessionsInv
<1>4. ASSUME NEW c \in Clients, Evict(c) PROVE SessionsInv'
  <2>1. /\ listed' = listed \ {c} /\ told' = [told EXCEPT ![c] = "none"]
        /\ UNCHANGED <<helm, phase, toTell>>
    BY <1>4 DEF Evict, Dropped
  <2>2. RolesSettle'
    BY <2>1 DEF RolesSettle, Role, SessionsInv
  <2>3. QED
    BY <2>1, <2>2 DEF SessionsInv, Roles
<1>5. ASSUME NEW c \in Clients, TakeHelm(c) PROVE SessionsInv'
  BY <1>5, BroadcastSettles DEF TakeHelm, Phases, SessionsInv
<1>6. ASSUME NEW c \in Clients, Disconnect(c) PROVE SessionsInv'
  <2>1. /\ listed' = listed \ {c} /\ told' = [told EXCEPT ![c] = "none"]
        /\ phase' = [phase EXCEPT ![c] = "leaving"]
        /\ toTell' = [h \in Clients |-> IF h = c THEN listed' ELSE toTell[h] \ {c}]
    BY <1>6 DEF Disconnect
  <2>2. RolesSettle'
    BY <2>1 DEF RolesSettle, SessionsInv
  <2>3. QED
    BY <2>1, <2>2 DEF SessionsInv, Roles, Phases
<1>7. ASSUME NEW h \in Clients, NEW c \in Clients, Tell(h, c) PROVE SessionsInv'
  <2>1. /\ toTell' = [toTell EXCEPT ![h] = @ \ {c}] /\ UNCHANGED <<helm, phase>>
    BY <1>7 DEF Tell
  <2>2. CASE told' = [told EXCEPT ![c] = Role(c)] /\ UNCHANGED listed
    <3>1. told'[c] = Role(c)' /\ \A d \in Clients \ {c} : told'[d] = told[d]
      BY <2>1, <2>2 DEF Role, SessionsInv
    <3>2. \A d \in Clients \ {c}, g \in Clients : d \in toTell[g] => d \in toTell'[g]
      BY <2>1 DEF SessionsInv
    <3>3. RolesSettle'
      BY <2>1, <2>2, <3>1, <3>2 DEF RolesSettle, Role, SessionsInv
    <3>4. QED
      BY <2>1, <2>2, <3>3 DEF SessionsInv, Roles, Role
  <2>3. CASE Dropped(c)
    <3>1. listed' = listed \ {c} /\ told' = [told EXCEPT ![c] = "none"]
      BY <2>3 DEF Dropped
    <3>2. \A d \in Clients \ {c}, g \in Clients : d \in toTell[g] => d \in toTell'[g]
      BY <2>1 DEF SessionsInv
    <3>3. RolesSettle'
      BY <2>1, <3>1, <3>2 DEF RolesSettle, Role, SessionsInv
    <3>4. QED
      BY <2>1, <3>1, <3>3 DEF SessionsInv, Roles
  <2>4. QED
    BY <1>7, <2>2, <2>3 DEF Tell
<1>8. CASE UNCHANGED sessionVars
  BY <1>8 DEF sessionVars, SessionsInv, RolesSettle, Role
<1>9. QED
  BY <1>1, <1>2, <1>3, <1>4, <1>5, <1>6, <1>7, <1>8 DEF SessionsNext

(* Whoever gains or loses the helm, and however the sends of the handlers  *)
(* interleave, fail or time out, a listed client with a stale role is on   *)
(* some handler's list: _broadcast_roles of ui/server.py.                  *)
THEOREM RolesSettleHolds == SessionsSpec => []RolesSettle
<1>1. SessionsInv => RolesSettle
  BY DEF SessionsInv
<1>2. QED
  BY SessionsStart, SessionsStep, <1>1, PTL DEF SessionsSpec
-----------------------------------------------------------------------------
(* client_order.remove(websocket): nobody else leaves the queue.           *)
LEMMA RemoveFirstKeeps ==
  ASSUME NEW S, NEW s \in Seq(S), NEW e
  PROVE  /\ RemoveFirst(s, e) \in Seq(S)
         /\ ToSet(s) \ {e} \subseteq ToSet(RemoveFirst(s, e))
<1> DEFINE I == {i \in 1..Len(s) : s[i] = e}
           k == Min(I)
<1>1. CASE I = {}
  <2>1. RemoveFirst(s, e) = s
    BY <1>1 DEF RemoveFirst
  <2>2. QED
    BY <2>1
<1>2. CASE I # {}
  <2>1. k \in 1..Len(s) /\ s[k] = e
    <3>1. I \subseteq Nat
      OBVIOUS
    <3>2. k \in I
      <4> HIDE DEF I
      <4>1. QED
        BY <1>2, <3>1, MinIsLeast
    <3>3. QED
      BY <3>2
  <2>2. RemoveFirst(s, e) = SubSeq(s, 1, k - 1) \o SubSeq(s, k + 1, Len(s))
    BY <1>2 DEF RemoveFirst, SelectInSeq, RemoveAt
  <2> HIDE DEF k, I
  <2> DEFINE a == SubSeq(s, 1, k - 1)
             b == SubSeq(s, k + 1, Len(s))
  <2>3. /\ a \in Seq(S) /\ Len(a) = k - 1
        /\ \A i \in 1..(k - 1) : a[i] = s[i]
    BY <2>1, SubSeqProperties
  <2>4. /\ b \in Seq(S) /\ Len(b) = Len(s) - k
        /\ \A i \in 1..(Len(s) - k) : b[i] = s[k + i]
    BY <2>1, SubSeqProperties
  <2> HIDE DEF a, b
  <2>5. /\ a \o b \in Seq(S) /\ Len(a \o b) = Len(s) - 1
        /\ \A i \in 1..(Len(s) - 1) : (a \o b)[i] = IF i <= k - 1 THEN a[i] ELSE b[i - (k - 1)]
    <3>1. Len(a) + Len(b) = Len(s) - 1
      BY <2>1, <2>3, <2>4
    <3>2. QED
      BY <2>3, <2>4, <3>1, ConcatProperties
  <2>6. ASSUME NEW i \in 1..Len(s), i # k
        PROVE  \E j \in 1..(Len(s) - 1) : (a \o b)[j] = s[i]
    <3>1. CASE i < k
      <4>1. i \in 1..(Len(s) - 1) /\ (a \o b)[i] = s[i]
        BY <2>1, <2>3, <2>5, <3>1
      <4>2. QED
        BY <4>1
    <3>2. CASE i > k
      <4>1. /\ i - 1 \in 1..(Len(s) - 1) /\ (i - 1) - (k - 1) = i - k
            /\ i - k \in 1..(Len(s) - k) /\ k + (i - k) = i
        BY <2>1, <3>2
      <4>2. (a \o b)[i - 1] = b[i - k] /\ b[i - k] = s[i]
        BY <2>1, <2>4, <2>5, <3>2, <4>1
      <4>3. QED
        BY <4>1, <4>2
    <3>3. i < k \/ i > k
      BY <2>1, <2>6
    <3>4. QED
      BY <3>1, <3>2, <3>3
  <2>7. DOMAIN (a \o b) = 1..(Len(s) - 1)
    BY <2>5
  <2>8. \A x \in ToSet(s) \ {e} : x \in ToSet(a \o b)
    <3>1. TAKE x \in ToSet(s) \ {e}
    <3>2. PICK i \in 1..Len(s) : s[i] = x
      BY DEF ToSet
    <3>3. PICK j \in 1..(Len(s) - 1) : (a \o b)[j] = x
      BY <2>1, <2>6, <3>2
    <3>4. QED
      BY <2>7, <3>3 DEF ToSet
  <2>9. QED
    BY <2>2, <2>5, <2>8 DEF a, b
<1>3. QED
  BY <1>1, <1>2

(* _promote_next_helm finds somebody as long as a listed socket is open.   *)
LEMMA PromotedHeir ==
  ASSUME NEW clients \in SUBSET Clients, NEW queue \in Seq(Clients),
         clients \subseteq ToSet(queue)
  PROVE  IF clients = {} THEN Promoted(clients, queue) = Nobody
         ELSE Promoted(clients, queue) \in clients
<1> DEFINE heirs == {i \in DOMAIN queue : queue[i] \in clients}
<1>1. heirs \subseteq Nat
  OBVIOUS
<1>2. (heirs = {}) = (clients = {})
  BY DEF ToSet
<1>3. heirs # {} => queue[Min(heirs)] \in clients
  BY <1>1, MinIsLeast
<1>4. QED
  BY <1>2, <1>3 DEF Promoted

HelmInv ==
    /\ SessionsTypeOK
    /\ listed \subseteq ToSet(order)
    /\ \A c \in Clients : phase[c] \in {"greeting", "telling", "reading"} => c \in ToSet(order)
    /\ HelmHeld

LEMMA HelmStart == SessionsInit => HelmInv
  BY DEF SessionsInit, HelmInv, HelmHeld, SessionsTypeOK, Roles, Phases, ToSet

LEMMA BroadcastTypes ==
  ASSUME SessionsTypeOK, NEW h \in Clients, NEW to \in Phases,
         Broadcast(h, to), listed' \subseteq Clients
  PROVE  phase' = [phase EXCEPT ![h] = to] /\ phase' \in [Clients -> Phases]
         /\ toTell' \in [Clients -> SUBSET Clients]
BY DEF Broadcast, SessionsTypeOK

LEMMA HelmStep == HelmInv /\ [SessionsNext]_sessionVars => HelmInv'
<1> SUFFICES ASSUME HelmInv, [SessionsNext]_sessionVars PROVE HelmInv'
  OBVIOUS
<1> USE DEF HelmInv
<1>1. ASSUME NEW c \in Clients, Connect(c) PROVE HelmInv'
  <2>1. /\ listed' = listed \cup {c} /\ UNCHANGED <<told, toTell>>
        /\ order' = Append(order, c)
        /\ phase' = [phase EXCEPT ![c] = "greeting"]
        /\ helm' = IF helm = Nobody /\ ~Readonly THEN c ELSE helm
    BY <1>1 DEF Connect
  <2>2. order' \in Seq(Clients) /\ ToSet(order') = ToSet(order) \cup {c}
    <3>1. /\ order' \in Seq(Clients) /\ Len(order') = Len(order) + 1
          /\ \A i \in 1..Len(order) : order'[i] = order[i]
          /\ order'[Len(order) + 1] = c
      BY <2>1, AppendProperties DEF SessionsTypeOK
    <3>2. DOMAIN order' = DOMAIN order \cup {Len(order) + 1} /\ DOMAIN order = 1..Len(order)
      BY <3>1 DEF SessionsTypeOK
    <3>3. QED
      BY <3>1, <3>2 DEF ToSet
  <2>3. SessionsTypeOK'
    BY <2>1, <2>2 DEF SessionsTypeOK, Phases
  <2>4. HelmHeld'
    BY <2>1, <2>2, SessionsAssumption DEF HelmHeld
  <2>5. QED
    BY <2>1, <2>2, <2>3, <2>4 DEF SessionsTypeOK
<1>2. ASSUME NEW c \in Clients, Greet(c) PROVE HelmInv'
  <2>1. UNCHANGED <<listed, order, helm, told>> /\ phase[c] = "greeting"
        /\ Broadcast(c, "telling")
    BY <1>2 DEF Greet
  <2>2. /\ phase' = [phase EXCEPT ![c] = "telling"] /\ phase' \in [Clients -> Phases]
        /\ toTell' \in [Clients -> SUBSET Clients]
    BY <2>1, BroadcastTypes DEF SessionsTypeOK, Phases
  <2>3. QED
    BY <2>1, <2>2 DEF SessionsTypeOK, HelmHeld
<1>3. ASSUME NEW c \in Clients, EveryoneTold(c) PROVE HelmInv'
  <2>1. /\ UNCHANGED <<listed, order, helm, told, toTell>>
        /\ phase[c] \in {"telling", "leaving"}
        /\ phase' = [phase EXCEPT ![c] = IF phase[c] = "telling" THEN "reading" ELSE "away"]
    BY <1>3 DEF EveryoneTold
  <2>2. SessionsTypeOK'
    BY <2>1 DEF SessionsTypeOK, Phases
  <2>3. QED
    BY <2>1, <2>2 DEF SessionsTypeOK, HelmHeld
<1>4. ASSUME NEW c \in Clients, Evict(c) PROVE HelmInv'
  <2>1. /\ listed' = listed \ {c} /\ told' = [told EXCEPT ![c] = "none"]
        /\ UNCHANGED <<order, helm, phase, toTell>>
    BY <1>4 DEF Evict, Dropped
  <2>2. SessionsTypeOK'
    BY <2>1 DEF SessionsTypeOK, Roles
  <2>3. QED
    BY <2>1, <2>2 DEF HelmHeld
<1>5. ASSUME NEW c \in Clients, TakeHelm(c) PROVE HelmInv'
  <2>1. /\ UNCHANGED <<listed, order, told>> /\ phase[c] = "reading" /\ helm' = c
        /\ Broadcast(c, "telling")
    BY <1>5 DEF TakeHelm
  <2>2. /\ phase' = [phase EXCEPT ![c] = "telling"] /\ phase' \in [Clients -> Phases]
        /\ toTell' \in [Clients -> SUBSET Clients]
    BY <2>1, BroadcastTypes DEF SessionsTypeOK, Phases
  <2>3. HelmHeld'
    BY <2>1, SessionsAssumption DEF HelmHeld
  <2>4. QED
    BY <2>1, <2>2, <2>3 DEF SessionsTypeOK
<1>6. ASSUME NEW c \in Clients, Disconnect(c) PROVE HelmInv'
  <2>1. /\ listed' = listed \ {c} /\ told' = [told EXCEPT ![c] = "none"]
        /\ order' = RemoveFirst(order, c)
        /\ phase' = [phase EXCEPT ![c] = "leaving"]
        /\ helm' = IF helm = c THEN Promoted(listed', order') ELSE helm
        /\ toTell' = [h \in Clients |-> IF h = c THEN listed' ELSE toTell[h] \ {c}]
    BY <1>6 DEF Disconnect
  <2>2. order' \in Seq(Clients) /\ ToSet(order) \ {c} \subseteq ToSet(order')
    BY <2>1, RemoveFirstKeeps DEF SessionsTypeOK
  <2>3. listed' \subseteq Clients /\ listed' \subseteq ToSet(order')
    BY <2>1, <2>2 DEF SessionsTypeOK
  <2>4. helm = c => IF listed' = {} THEN helm' = Nobody ELSE helm' \in listed'
    BY <2>1, <2>2, <2>3, PromotedHeir
  <2>5. SessionsTypeOK'
    BY <2>1, <2>2, <2>3, <2>4 DEF SessionsTypeOK, Roles, Phases
  <2>6. HelmHeld'
    <3>1. CASE helm = c
      BY <2>3, <2>4, <3>1, SessionsAssumption DEF HelmHeld
    <3>2. CASE helm # c
      BY <2>1, <2>2, <3>2 DEF HelmHeld
    <3>3. QED
      BY <3>1, <3>2
  <2>7. QED
    BY <2>1, <2>2, <2>3, <2>5, <2>6 DEF SessionsTypeOK
<1>7. ASSUME NEW h \in Clients, NEW c \in Clients, Tell(h, c) PROVE HelmInv'
  <2>1. /\ toTell' = [toTell EXCEPT ![h] = @ \ {c}] /\ UNCHANGED <<order, helm, phase>>
        /\ \/ told' = [told EXCEPT ![c] = Role(c)] /\ listed' = listed
           \/ listed' = listed \ {c} /\ told' = [told EXCEPT ![c] = "none"]
    BY <1>7 DEF Tell, Dropped
  <2>2. SessionsTypeOK'
    BY <2>1 DEF SessionsTypeOK, Roles, Role
  <2>3. QED
    BY <2>1, <2>2 DEF HelmHeld
<1>8. CASE UNCHANGED sessionVars
  BY <1>8 DEF sessionVars, SessionsTypeOK, HelmHeld
<1>9. QED
  BY <1>1, <1>2, <1>3, <1>4, <1>5, <1>6, <1>7, <1>8 DEF SessionsNext

(* However sockets open, close, are evicted or take over, and whatever     *)
(* else their handlers are doing then, somebody who is connected holds the *)
(* helm: _promote_next_helm and the finally block of ws in ui/server.py.   *)
THEOREM HelmHeldAlways == SessionsSpec => [](SessionsTypeOK /\ HelmHeld)
<1>1. HelmInv => SessionsTypeOK /\ HelmHeld
  BY DEF HelmInv
<1>2. QED
  BY HelmStart, HelmStep, <1>1, PTL DEF SessionsSpec

=============================================================================
