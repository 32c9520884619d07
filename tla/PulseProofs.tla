---------------------------- MODULE PulseProofs ----------------------------
(***************************************************************************)
(* What the Pulse shows, for any agents, any history and any delay of the    *)
(* indexer: the last word an agent's unread events have on its status,       *)
(* listing or node is what the registry holds; with no such event, what the  *)
(* entity holds is.  And what it counts: the totals are the sums over the    *)
(* agents.                                                                   *)
(***************************************************************************)
EXTENDS PulseSubgraph, RegistrySafetyProofs

Fields == {"consentStatus", "listed", "ensNode"}

\* the fields of its agent that the handler of an event overwrites
Says(e, f) ==
    \/ e.ev = "Registered"
    \/ f = "consentStatus" /\ e.ev \in {"AgentLaunched", "ConsentChanged"}
    \/ f = "listed" /\ e.ev \in {"AgentLaunched", "Delisted", "Relisted"}
    \/ f = "ensNode" /\ e.ev = "SubnameAssigned"

\* and with what
Value(e, f) ==
    CASE f = "consentStatus" /\ e.ev = "Registered" -> "paused"
      [] f = "consentStatus" /\ e.ev = "AgentLaunched" -> "active"
      [] f = "consentStatus" /\ e.ev = "ConsentChanged" -> StatusName(e.what)
      [] f = "listed" /\ e.ev \in {"Registered", "Delisted"} -> FALSE
      [] f = "listed" /\ e.ev \in {"AgentLaunched", "Relisted"} -> TRUE
      [] f = "ensNode" /\ e.ev = "Registered" -> NoNode
      [] OTHER -> e.what

\* what the registry holds
Truth(a, f) == IF f = "consentStatus" THEN WindowText(records[a].consent) ELSE records[a][f]

About(e, a, f) == e.id = a /\ Says(e, f)

Silent(q, a, f) == \A i \in 1 .. Len(q) : ~About(q[i], a, f)

LastWord(q, a, f, v) ==
    \E i \in 1 .. Len(q) :
        /\ About(q[i], a, f) /\ Value(q[i], f) = v
        /\ \A j \in 1 .. Len(q) : j > i => ~About(q[j], a, f)

\* an id nobody minted is only ever relisted
Unborn(q, a) == \A i \in 1 .. Len(q) : q[i].id = a => q[i].ev = "Relisted"
Births(q, a) ==
    \E i \in 1 .. Len(q) :
        /\ q[i].id = a /\ q[i].ev = "Registered"
        /\ \A j \in 1 .. Len(q) : q[j].id = a =>
               (j < i => q[j].ev = "Relisted") /\ (j > i => q[j].ev # "Registered")
Born(q, a) == \A i \in 1 .. Len(q) : q[i].id = a => q[i].ev # "Registered"

\* the entity appears with the first event after the mint
EntityInv(a) ==
    \/ ~Minted(a) /\ agents[a] = NoEntity /\ Unborn(backlog, a)
    \/ Minted(a) /\ agents[a] = NoEntity /\ Births(backlog, a)
    \/ Minted(a) /\ agents[a].exists /\ Born(backlog, a)

FaceInv(a) ==
    Minted(a) => \A f \in Fields :
        \/ LastWord(backlog, a, f, Truth(a, f))
        \/ Silent(backlog, a, f) /\ agents[a].exists /\ agents[a][f] = Truth(a, f)

\* the value an event carries is of its kind
WellTold(q) == \A i \in 1 .. Len(q) :
    /\ q[i].ev = "Hired" => q[i].what \in Amounts
    /\ q[i].ev = "SubnameAssigned" => q[i].what \in Nodes \union {NoNode}

PulseInv ==
    /\ RegistryInv /\ PulseTypeOK /\ WellTold(backlog)
    /\ \A a \in TokenIds : EntityInv(a) /\ FaceInv(a)
----------------------------------------------------------------------------
(***************************************************************************)
(* The queue of events, longer by a transaction and shorter by a handler.    *)
(***************************************************************************)
LEMMA Joined ==
    ASSUME NEW q \in Seq(Events), NEW r \in Seq(Events)
    PROVE  /\ Len(q) \in Nat /\ Len(r) \in Nat
           /\ q \o r \in Seq(Events) /\ Len(q \o r) = Len(q) + Len(r)
           /\ \A i \in 1 .. Len(q) : (q \o r)[i] = q[i]
           /\ \A i \in 1 .. Len(r) : (q \o r)[Len(q) + i] = r[i]
           /\ \A i \in 1 .. Len(q \o r) : i \in 1 .. Len(q) \/ i - Len(q) \in 1 .. Len(r)
  OBVIOUS

LEMMA Popped ==
    ASSUME NEW q \in Seq(Events), q # <<>>
    PROVE  /\ Len(q) \in Nat /\ Len(q) >= 1 /\ Head(q) = q[1] /\ q[1] \in Events
           /\ Tail(q) \in Seq(Events) /\ Len(Tail(q)) = Len(q) - 1
           /\ \A i \in 1 .. Len(q) - 1 : Tail(q)[i] = q[i + 1]
  OBVIOUS

(***************************************************************************)
(* What a longer queue says: the new events if they say anything, else the   *)
(* old ones.                                                                 *)
(***************************************************************************)
LEMMA JoinedSays ==
    ASSUME NEW q \in Seq(Events), NEW r \in Seq(Events), NEW a, NEW f, NEW v
    PROVE  /\ LastWord(r, a, f, v) => LastWord(q \o r, a, f, v)
           /\ Silent(r, a, f) /\ LastWord(q, a, f, v) => LastWord(q \o r, a, f, v)
           /\ Silent(r, a, f) /\ Silent(q, a, f) => Silent(q \o r, a, f)
<1> DEFINE n == Len(q)
           m == Len(r)
           s == q \o r
<1>1. /\ n \in Nat /\ m \in Nat /\ Len(s) = n + m
      /\ \A i \in 1 .. n : s[i] = q[i]
      /\ \A i \in 1 .. m : s[n + i] = r[i]
  BY Joined
<1> HIDE DEF n, m, s
<1>2. \A i \in 1 .. n + m : i \in 1 .. n \/ (i - n \in 1 .. m /\ s[i] = r[i - n])
  <2> SUFFICES ASSUME NEW i \in 1 .. n + m, i \notin 1 .. n
               PROVE  i - n \in 1 .. m /\ s[i] = r[i - n]
    OBVIOUS
  <2>1. i - n \in 1 .. m /\ n + (i - n) = i
    BY <1>1
  <2> QED
    BY <1>1, <2>1
<1>3. ASSUME LastWord(r, a, f, v) PROVE LastWord(s, a, f, v)
  <2>1. PICK i \in 1 .. m : /\ About(r[i], a, f) /\ Value(r[i], f) = v
                            /\ \A j \in 1 .. m : j > i => ~About(r[j], a, f)
    BY <1>3 DEF LastWord, m
  <2>2. n + i \in 1 .. n + m /\ s[n + i] = r[i]
    BY <1>1
  <2>3. ASSUME NEW j \in 1 .. n + m, j > n + i PROVE ~About(s[j], a, f)
    <3>1. j - n \in 1 .. m /\ s[j] = r[j - n] /\ j - n > i
      BY <1>1, <1>2, <2>3
    <3> QED
      BY <2>1, <3>1
  <2> QED
    BY <1>1, <2>1, <2>2, <2>3 DEF LastWord
<1>4. ASSUME Silent(r, a, f), LastWord(q, a, f, v) PROVE LastWord(s, a, f, v)
  <2>1. PICK i \in 1 .. n : /\ About(q[i], a, f) /\ Value(q[i], f) = v
                            /\ \A j \in 1 .. n : j > i => ~About(q[j], a, f)
    BY <1>4 DEF LastWord, n
  <2>2. i \in 1 .. n + m /\ s[i] = q[i]
    BY <1>1
  <2>3. ASSUME NEW j \in 1 .. n + m, j > i PROVE ~About(s[j], a, f)
    BY <1>1, <1>2, <1>4, <2>1, <2>3 DEF Silent, m
  <2> QED
    BY <1>1, <2>1, <2>2, <2>3 DEF LastWord
<1>5. ASSUME Silent(r, a, f), Silent(q, a, f) PROVE Silent(s, a, f)
  BY <1>1, <1>2, <1>5 DEF Silent, n, m
<1> QED
  BY <1>3, <1>4, <1>5 DEF s

LEMMA JoinedBirth ==
    ASSUME NEW q \in Seq(Events), NEW r \in Seq(Events), NEW a
    PROVE  /\ Unborn(q, a) /\ Unborn(r, a) => Unborn(q \o r, a)
           /\ Unborn(q, a) /\ Births(r, a) => Births(q \o r, a)
           /\ Births(q, a) /\ Born(r, a) => Births(q \o r, a)
           /\ Born(q, a) /\ Born(r, a) => Born(q \o r, a)
<1> DEFINE n == Len(q)
           m == Len(r)
           s == q \o r
<1>1. /\ n \in Nat /\ m \in Nat /\ Len(s) = n + m
      /\ \A i \in 1 .. n : s[i] = q[i]
      /\ \A i \in 1 .. m : s[n + i] = r[i]
  BY Joined
<1> HIDE DEF n, m, s
<1>2. \A i \in 1 .. n + m : i \in 1 .. n \/ (i - n \in 1 .. m /\ s[i] = r[i - n])
  <2> SUFFICES ASSUME NEW i \in 1 .. n + m, i \notin 1 .. n
               PROVE  i - n \in 1 .. m /\ s[i] = r[i - n]
    OBVIOUS
  <2>1. i - n \in 1 .. m /\ n + (i - n) = i
    BY <1>1
  <2> QED
    BY <1>1, <2>1
<1>3. Unborn(q, a) /\ Unborn(r, a) => Unborn(s, a)
  BY <1>1, <1>2 DEF Unborn, n, m
<1>4. Born(q, a) /\ Born(r, a) => Born(s, a)
  BY <1>1, <1>2 DEF Born, n, m
<1>5. ASSUME Unborn(q, a), Births(r, a) PROVE Births(s, a)
  <2>1. PICK i \in 1 .. m :
            /\ r[i].id = a /\ r[i].ev = "Registered"
            /\ \A j \in 1 .. m : r[j].id = a =>
                   (j < i => r[j].ev = "Relisted") /\ (j > i => r[j].ev # "Registered")
    BY <1>5 DEF Births, m
  <2>2. n + i \in 1 .. n + m /\ s[n + i] = r[i]
    BY <1>1
  <2>3. ASSUME NEW j \in 1 .. n + m, s[j].id = a
        PROVE  (j < n + i => s[j].ev = "Relisted") /\ (j > n + i => s[j].ev # "Registered")
    <3>1. CASE j \in 1 .. n
      <4>1. s[j].ev = "Relisted"
        BY <1>1, <1>5, <2>3, <3>1 DEF Unborn, n
      <4> QED
        BY <4>1
    <3>2. CASE j - n \in 1 .. m /\ s[j] = r[j - n]
      BY <1>1, <2>1, <2>3, <3>2
    <3> QED
      BY <1>2, <3>1, <3>2
  <2> QED
    BY <1>1, <2>1, <2>2, <2>3 DEF Births
<1>6. ASSUME Births(q, a), Born(r, a) PROVE Births(s, a)
  <2>1. PICK i \in 1 .. n :
            /\ q[i].id = a /\ q[i].ev = "Registered"
            /\ \A j \in 1 .. n : q[j].id = a =>
                   (j < i => q[j].ev = "Relisted") /\ (j > i => q[j].ev # "Registered")
    BY <1>6 DEF Births, n
  <2>2. i \in 1 .. n + m /\ s[i] = q[i]
    BY <1>1
  <2>3. ASSUME NEW j \in 1 .. n + m, s[j].id = a
        PROVE  (j < i => s[j].ev = "Relisted") /\ (j > i => s[j].ev # "Registered")
    <3>1. CASE j \in 1 .. n
      BY <1>1, <2>1, <2>3, <3>1
    <3>2. CASE j \notin 1 .. n
      <4>1. j - n \in 1 .. m /\ s[j] = r[j - n] /\ ~(j < i)
        BY <1>1, <1>2, <3>2
      <4> QED
        BY <1>6, <2>3, <4>1 DEF Born, m
    <3> QED
      BY <3>1, <3>2
  <2> QED
    BY <1>1, <2>1, <2>2, <2>3 DEF Births
<1> QED
  BY <1>3, <1>4, <1>5, <1>6 DEF s

LEMMA PoppedSays ==
    ASSUME NEW q \in Seq(Events), q # <<>>, NEW a, NEW f, NEW v
    PROVE  /\ LastWord(q, a, f, v) =>
                  \/ LastWord(Tail(q), a, f, v)
                  \/ About(q[1], a, f) /\ Value(q[1], f) = v /\ Silent(Tail(q), a, f)
           /\ Silent(q, a, f) => Silent(Tail(q), a, f) /\ ~About(q[1], a, f)
<1> DEFINE n == Len(q)
           t == Tail(q)
<1>1. /\ n \in Nat /\ n >= 1 /\ Len(t) = n - 1
      /\ \A i \in 1 .. n - 1 : t[i] = q[i + 1] /\ i + 1 \in 1 .. n
  BY Popped
<1> HIDE DEF n, t
<1>2. ASSUME LastWord(q, a, f, v)
      PROVE  \/ LastWord(t, a, f, v)
             \/ About(q[1], a, f) /\ Value(q[1], f) = v /\ Silent(t, a, f)
  <2>1. PICK i \in 1 .. n : /\ About(q[i], a, f) /\ Value(q[i], f) = v
                            /\ \A j \in 1 .. n : j > i => ~About(q[j], a, f)
    BY <1>2 DEF LastWord, n
  <2>2. CASE i = 1
    <3>1. \A j \in 1 .. n - 1 : j + 1 > 1
      BY <1>1
    <3> QED
      BY <1>1, <2>1, <2>2, <3>1 DEF Silent
  <2>3. CASE i # 1
    <3>1. i - 1 \in 1 .. n - 1 /\ t[i - 1] = q[i]
      BY <1>1, <2>3
    <3>2. \A j \in 1 .. n - 1 : j > i - 1 => j + 1 > i
      BY <1>1
    <3> QED
      BY <1>1, <2>1, <3>1, <3>2 DEF LastWord
  <2> QED
    BY <2>2, <2>3
<1>3. ASSUME Silent(q, a, f) PROVE Silent(t, a, f) /\ ~About(q[1], a, f)
  BY <1>1, <1>3 DEF Silent, n
<1> QED
  BY <1>2, <1>3 DEF t

LEMMA PoppedBirth ==
    ASSUME NEW q \in Seq(Events), q # <<>>, NEW a
    PROVE  /\ Unborn(q, a) => Unborn(Tail(q), a) /\ (q[1].id = a => q[1].ev = "Relisted")
           /\ Births(q, a) =>
                  \/ Births(Tail(q), a) /\ (q[1].id = a => q[1].ev = "Relisted")
                  \/ q[1].id = a /\ q[1].ev = "Registered" /\ Born(Tail(q), a)
           /\ Born(q, a) => Born(Tail(q), a) /\ (q[1].id = a => q[1].ev # "Registered")
<1> DEFINE n == Len(q)
           t == Tail(q)
<1>1. /\ n \in Nat /\ n >= 1 /\ Len(t) = n - 1
      /\ \A i \in 1 .. n - 1 : t[i] = q[i + 1] /\ i + 1 \in 1 .. n
  BY Popped
<1> HIDE DEF n, t
<1>2. Unborn(q, a) => Unborn(t, a) /\ (q[1].id = a => q[1].ev = "Relisted")
  BY <1>1 DEF Unborn, n
<1>3. Born(q, a) => Born(t, a) /\ (q[1].id = a => q[1].ev # "Registered")
  BY <1>1 DEF Born, n
<1>4. ASSUME Births(q, a)
      PROVE  \/ Births(t, a) /\ (q[1].id = a => q[1].ev = "Relisted")
             \/ q[1].id = a /\ q[1].ev = "Registered" /\ Born(t, a)
  <2>1. PICK i \in 1 .. n :
            /\ q[i].id = a /\ q[i].ev = "Registered"
            /\ \A j \in 1 .. n : q[j].id = a =>
                   (j < i => q[j].ev = "Relisted") /\ (j > i => q[j].ev # "Registered")
    BY <1>4 DEF Births, n
  <2>2. CASE i = 1
    <3>1. \A j \in 1 .. n - 1 : j + 1 > 1
      BY <1>1
    <3> QED
      BY <1>1, <2>1, <2>2, <3>1 DEF Born
  <2>3. CASE i # 1
    <3>1. i - 1 \in 1 .. n - 1 /\ t[i - 1] = q[i] /\ 1 < i /\ 1 \in 1 .. n
      BY <1>1, <2>3
    <3>2. ASSUME NEW j \in 1 .. n - 1, t[j].id = a
          PROVE  (j < i - 1 => t[j].ev = "Relisted") /\ (j > i - 1 => t[j].ev # "Registered")
      <4>1. t[j] = q[j + 1] /\ j + 1 \in 1 .. n /\ (j > i - 1 => j + 1 > i) /\ (j < i - 1 => j + 1 < i)
        BY <1>1
      <4> QED
        BY <2>1, <3>2, <4>1
    <3>3. Births(t, a)
      BY <1>1, <2>1, <3>1, <3>2 DEF Births
    <3> QED
      BY <2>1, <3>1, <3>3
  <2> QED
    BY <2>2, <2>3
<1> QED
  BY <1>2, <1>3, <1>4 DEF t

\* a registration says everything about its agent
LEMMA BirthSpeaks ==
    ASSUME NEW q, NEW a, NEW f, Births(q, a)
    PROVE  ~Silent(q, a, f)
  BY DEF Births, Silent, About, Says
----------------------------------------------------------------------------
(***************************************************************************)
(* The handlers: the entity of the event's agent shows what the event says.  *)
(***************************************************************************)
LEMMA EntitiesTyped ==
    /\ NoEntity \in Entities /\ ~NoEntity.exists
    /\ \A who \in Address : [NewAgent EXCEPT !.operator = who] \in Entities
  BY DEF NoEntity, NewAgent, Entities, Windows

LEMMA HandledTyped ==
    ASSUME PulseTypeOK, NEW e \in Events, NEW entity \in Entities, NEW total \in DOMAIN NoStats,
           Handled(e, entity, total)
    PROVE  /\ agents' \in [TokenIds -> Entities] /\ stats' \in [DOMAIN NoStats -> Nat]
           /\ agents'[e.id] = entity /\ \A b \in TokenIds : b # e.id => agents'[b] = agents[b]
  BY DEF Handled, PulseTypeOK, Events

\* what an entity that is there becomes under an event that is no registration
Shows(entity, e, old) ==
    /\ entity \in Entities /\ entity.exists = old.exists
    /\ \A f \in Fields : entity[f] = IF Says(e, f) THEN Value(e, f) ELSE old[f]

LEMMA Texts3 ==
    ASSUME NEW s PROVE StatusName(s) \in Windows
  BY DEF StatusName, Windows

LEMMA HandlersShow ==
    ASSUME PulseTypeOK, NEW e \in Events, NEW old \in Entities
    PROVE  /\ e.ev = "ConsentChanged" => Shows([old EXCEPT !.consentStatus = StatusName(e.what)], e, old)
           /\ e.ev = "Delisted" => Shows([old EXCEPT !.listed = FALSE], e, old)
           /\ e.ev = "Relisted" => Shows([old EXCEPT !.listed = TRUE], e, old)
           /\ e.ev = "SubnameAssigned" /\ e.what \in Nodes \union {NoNode} =>
                  Shows([old EXCEPT !.ensNode = e.what], e, old)
           /\ e.ev = "Hired" /\ e.what \in Nat =>
                  Shows([old EXCEPT !.hireCount = @ + 1, !.hiredAmount = @ + e.what], e, old)
           /\ e.ev = "Blessed" => Shows([old EXCEPT !.blessCount = @ + 1], e, old)
           /\ e.ev = "AgentLaunched" =>
                  Shows([old EXCEPT !.operator = e.who, !.consentStatus = "active",
                                    !.listed = TRUE, !.registeredOnly = FALSE], e, old)
<1>1. StatusName(e.what) \in Windows /\ e.who \in Address
  BY Texts3 DEF Events
<1>2. e.ev = "ConsentChanged" => Shows([old EXCEPT !.consentStatus = StatusName(e.what)], e, old)
  BY <1>1 DEF Shows, Says, Value, Fields, Entities
<1>3. e.ev = "Delisted" => Shows([old EXCEPT !.listed = FALSE], e, old)
  BY DEF Shows, Says, Value, Fields, Entities
<1>4. e.ev = "Relisted" => Shows([old EXCEPT !.listed = TRUE], e, old)
  BY DEF Shows, Says, Value, Fields, Entities
<1>5. e.ev = "SubnameAssigned" /\ e.what \in Nodes \union {NoNode} =>
          Shows([old EXCEPT !.ensNode = e.what], e, old)
  BY DEF Shows, Says, Value, Fields, Entities
<1>6. ASSUME e.ev = "Hired", e.what \in Nat
      PROVE  Shows([old EXCEPT !.hireCount = @ + 1, !.hiredAmount = @ + e.what], e, old)
  <2>1. old.hireCount + 1 \in Nat /\ old.hiredAmount + e.what \in Nat
    <3>1. old.hireCount \in Nat /\ old.hiredAmount \in Nat
      BY DEF Entities
    <3> QED
      BY <1>6, <3>1
  <2>2. ASSUME NEW n \in Nat, NEW m \in Nat
        PROVE  Shows([old EXCEPT !.hireCount = n, !.hiredAmount = m], e, old)
    BY <1>6 DEF Shows, Says, Fields, Entities
  <2> QED
    BY <2>1, <2>2
<1>7. ASSUME e.ev = "Blessed"
      PROVE  Shows([old EXCEPT !.blessCount = @ + 1], e, old)
  <2>1. old.blessCount + 1 \in Nat
    <3>1. old.blessCount \in Nat
      BY DEF Entities
    <3> QED
      BY <3>1
  <2>2. ASSUME NEW n \in Nat
        PROVE  Shows([old EXCEPT !.blessCount = n], e, old)
    BY <1>7 DEF Shows, Says, Fields, Entities
  <2> QED
    BY <2>1, <2>2
<1>8. e.ev = "AgentLaunched" =>
          Shows([old EXCEPT !.operator = e.who, !.consentStatus = "active",
                            !.listed = TRUE, !.registeredOnly = FALSE], e, old)
  BY <1>1 DEF Shows, Says, Value, Fields, Entities, Windows
<1> QED
  BY <1>2, <1>3, <1>4, <1>5, <1>6, <1>7, <1>8

(***************************************************************************)
(* The statistics only count up.                                             *)
(***************************************************************************)
LEMMA CountsTyped ==
    ASSUME stats \in [DOMAIN NoStats -> Nat], NEW total \in DOMAIN NoStats
    PROVE  [stats EXCEPT ![total] = @ + 1] \in [DOMAIN NoStats -> Nat]
<1>1. stats[total] + 1 \in Nat
  OBVIOUS
<1> QED
  BY <1>1

(***************************************************************************)
(* One step of the indexer, by what the entity was: absent entities ignore   *)
(* all but a registration, which creates them; present ones show the event.  *)
(***************************************************************************)
LEMMA IndexShows ==
    ASSUME PulseTypeOK, WellTold(backlog), Index, NEW e, e = Head(backlog),
           agents[e.id] = NoEntity => e.ev \in {"Registered", "Relisted"},
           agents[e.id].exists => e.ev # "Registered",
           agents[e.id] = NoEntity \/ agents[e.id].exists
    PROVE  /\ e \in Events
           /\ agents' \in [TokenIds -> Entities] /\ stats' \in [DOMAIN NoStats -> Nat]
           /\ \A b \in TokenIds : b # e.id => agents'[b] = agents[b]
           /\ agents[e.id] = NoEntity /\ e.ev = "Relisted" => agents'[e.id] = NoEntity
           /\ agents[e.id] = NoEntity /\ e.ev = "Registered" =>
                  agents'[e.id].exists /\ \A f \in Fields : agents'[e.id][f] = Value(e, f)
           /\ agents[e.id].exists => Shows(agents'[e.id], e, agents[e.id])
<1> DEFINE old == agents[e.id]
<1>1. /\ backlog \in Seq(Events) /\ backlog # <<>> /\ stats \in [DOMAIN NoStats -> Nat]
      /\ agents \in [TokenIds -> Entities]
  BY DEF Index, PulseTypeOK
<1>2. e \in Events /\ e.id \in TokenIds /\ e.who \in Address /\ old \in Entities
  <2>1. e \in Events
    BY <1>1, Popped
  <2> QED
    BY <1>1, <2>1 DEF Events
<1>3. /\ e.ev = "Hired" => e.what \in Nat
      /\ e.ev = "SubnameAssigned" => e.what \in Nodes \union {NoNode}
  <2>1. e = backlog[1] /\ 1 \in 1 .. Len(backlog)
    BY <1>1, Popped
  <2> QED
    BY <2>1, AmountsAssumption DEF WellTold
<1>4. \/ e.ev = "Registered" /\ HandleRegistered(e)
      \/ e.ev = "AgentLaunched" /\ HandleAgentLaunched(e)
      \/ e.ev = "ConsentChanged" /\ HandleConsentChanged(e)
      \/ e.ev = "Delisted" /\ HandleDelisted(e)
      \/ e.ev = "Relisted" /\ HandleRelisted(e)
      \/ e.ev = "SubnameAssigned" /\ HandleSubnameAssigned(e)
      \/ e.ev = "Hired" /\ HandleHired(e)
      \/ e.ev = "Blessed" /\ HandleBlessed(e)
  BY DEF Index
<1>5. ~NoEntity.exists /\ NoEntity \in Entities
  BY EntitiesTyped
\* what is left to show, from the entity written
<1>6. ASSUME NEW entity \in Entities, agents' = [agents EXCEPT ![e.id] = entity],
             stats' \in [DOMAIN NoStats -> Nat],
             old = NoEntity /\ e.ev = "Relisted" => entity = NoEntity,
             old = NoEntity /\ e.ev = "Registered" =>
                 entity.exists /\ \A f \in Fields : entity[f] = Value(e, f),
             old.exists => Shows(entity, e, old)
      PROVE  /\ agents' \in [TokenIds -> Entities]
             /\ \A b \in TokenIds : b # e.id => agents'[b] = agents[b]
             /\ old = NoEntity /\ e.ev = "Relisted" => agents'[e.id] = NoEntity
             /\ old = NoEntity /\ e.ev = "Registered" =>
                    agents'[e.id].exists /\ \A f \in Fields : agents'[e.id][f] = Value(e, f)
             /\ old.exists => Shows(agents'[e.id], e, old)
  <2>1. agents'[e.id] = entity
    BY <1>1, <1>2, <1>6
  <2> QED
    BY <1>1, <1>2, <1>6, <2>1
<1> HIDE DEF old
<1> USE <1>2
<1>7. CASE e.ev = "Registered"
  <2> DEFINE entity == [NewAgent EXCEPT !.operator = e.who]
  <2>1. old = NoEntity /\ HandleRegistered(e)
    BY <1>4, <1>7 DEF old
  <2>2. Handled(e, entity, "registered")
    BY <1>5, <2>1 DEF HandleRegistered, old
  <2>3. entity \in Entities
    BY EntitiesTyped
  <2>4. entity.exists /\ \A f \in Fields : entity[f] = Value(e, f)
    <3>1. /\ entity.exists /\ entity.consentStatus = "paused"
          /\ entity.listed = FALSE /\ entity.ensNode = NoNode
      BY DEF NewAgent, NoEntity
    <3>2. /\ Value(e, "consentStatus") = "paused" /\ Value(e, "listed") = FALSE
          /\ Value(e, "ensNode") = NoNode
      BY <1>7 DEF Value
    <3> HIDE DEF entity
    <3> QED
      BY <3>1, <3>2 DEF Fields
  <2>5. "registered" \in DOMAIN NoStats
    BY DEF NoStats
  <2>6. stats' \in [DOMAIN NoStats -> Nat] /\ agents' = [agents EXCEPT ![e.id] = entity]
    BY <1>1, <2>2, <2>5, CountsTyped DEF Handled
  <2> HIDE DEF entity
  <2> QED
    BY <1>5, <1>6, <1>7, <2>1, <2>3, <2>4, <2>6 DEF old
<1>8. CASE e.ev # "Registered" /\ old.exists
  <2>1. agents[e.id].exists
    BY <1>8 DEF old
  <2>2. PICK entity : /\ Shows(entity, e, old)
                      /\ agents' = [agents EXCEPT ![e.id] = entity]
                      /\ stats' \in [DOMAIN NoStats -> Nat]
    <3>1. {"agents", "consentChanges", "delists", "relists", "blessings"} \subseteq DOMAIN NoStats
      BY DEF NoStats
    <3>2. CASE e.ev = "AgentLaunched"
      <4>1. agents' = [agents EXCEPT ![e.id] = 
                           [old EXCEPT !.operator = e.who, !.consentStatus = "active",
                                       !.listed = TRUE, !.registeredOnly = FALSE]]
            /\ stats' = [stats EXCEPT !.agents = @ + 1]
        BY <1>4, <2>1, <3>2 DEF HandleAgentLaunched, Handled, old
      <4>2. stats' \in [DOMAIN NoStats -> Nat]
        BY <1>1, <3>1, <4>1, CountsTyped
      <4> QED
        BY <3>2, <4>1, <4>2, HandlersShow
    <3>3. CASE e.ev = "ConsentChanged"
      <4>1. agents' = [agents EXCEPT ![e.id] = [old EXCEPT !.consentStatus = StatusName(e.what)]]
            /\ stats' = [stats EXCEPT !.consentChanges = @ + 1]
        BY <1>4, <2>1, <3>3 DEF HandleConsentChanged, Handled, IfLoaded, old
      <4>2. stats' \in [DOMAIN NoStats -> Nat]
        BY <1>1, <3>1, <4>1, CountsTyped
      <4> QED
        BY <3>3, <4>1, <4>2, HandlersShow
    <3>4. CASE e.ev = "Delisted"
      <4>1. agents' = [agents EXCEPT ![e.id] = [old EXCEPT !.listed = FALSE]]
            /\ stats' = [stats EXCEPT !.delists = @ + 1]
        BY <1>4, <2>1, <3>4 DEF HandleDelisted, Handled, IfLoaded, old
      <4>2. stats' \in [DOMAIN NoStats -> Nat]
        BY <1>1, <3>1, <4>1, CountsTyped
      <4> QED
        BY <3>4, <4>1, <4>2, HandlersShow
    <3>5. CASE e.ev = "Relisted"
      <4>1. agents' = [agents EXCEPT ![e.id] = [old EXCEPT !.listed = TRUE]]
            /\ stats' = [stats EXCEPT !.relists = @ + 1]
        BY <1>4, <2>1, <3>5 DEF HandleRelisted, Handled, IfLoaded, old
      <4>2. stats' \in [DOMAIN NoStats -> Nat]
        BY <1>1, <3>1, <4>1, CountsTyped
      <4> QED
        BY <3>5, <4>1, <4>2, HandlersShow
    <3>6. CASE e.ev = "SubnameAssigned"
      BY <1>1, <1>3, <1>4, <2>1, <3>6, HandlersShow
         DEF HandleSubnameAssigned, IfLoaded, old
    <3>7. CASE e.ev = "Hired"
      <4>1. stats' = [stats EXCEPT !.hires = @ + 1, !.hiredAmount = @ + e.what]
        BY <1>4, <3>7 DEF HandleHired
      <4>2. e.what \in Nat /\ stats.hires + 1 \in Nat /\ stats.hiredAmount + e.what \in Nat
        <5>1. stats.hires \in Nat /\ stats.hiredAmount \in Nat
          BY <1>1 DEF NoStats
        <5> QED
          BY <1>3, <3>7, <5>1
      <4>3. stats' \in [DOMAIN NoStats -> Nat]
        BY <1>1, <4>1, <4>2
      <4>4. agents' = [agents EXCEPT ![e.id] =
                           [old EXCEPT !.hireCount = @ + 1, !.hiredAmount = @ + e.what]]
        BY <1>4, <2>1, <3>7 DEF HandleHired, IfLoaded, old
      <4> QED
        BY <3>7, <4>2, <4>3, <4>4, HandlersShow
    <3>8. CASE e.ev = "Blessed"
      <4>1. agents' = [agents EXCEPT ![e.id] = [old EXCEPT !.blessCount = @ + 1]]
            /\ stats' = [stats EXCEPT !.blessings = @ + 1]
        BY <1>4, <2>1, <3>8 DEF HandleBlessed, Handled, IfLoaded, old
      <4>2. stats' \in [DOMAIN NoStats -> Nat]
        BY <1>1, <3>1, <4>1, CountsTyped
      <4> QED
        BY <3>8, <4>1, <4>2, HandlersShow
    <3> QED
      BY <1>4, <1>8, <3>2, <3>3, <3>4, <3>5, <3>6, <3>7, <3>8
  <2>3. old # NoEntity
    BY <1>5, <1>8
  <2> QED
    BY <1>6, <1>8, <2>2, <2>3 DEF Shows, old
<1>9. CASE e.ev # "Registered" /\ ~old.exists
  <2>1. old = NoEntity /\ e.ev = "Relisted" /\ ~agents[e.id].exists
    BY <1>9 DEF old
  <2>2. Handled(e, NoEntity, "relists")
    BY <1>4, <2>1 DEF HandleRelisted, IfLoaded
  <2>3. "relists" \in DOMAIN NoStats
    BY DEF NoStats
  <2>4. stats' \in [DOMAIN NoStats -> Nat] /\ agents' = [agents EXCEPT ![e.id] = NoEntity]
    BY <1>1, <2>2, <2>3, CountsTyped DEF Handled
  <2> QED
    BY <1>5, <1>6, <1>9, <2>1, <2>4 DEF old
<1> QED
  BY <1>7, <1>8, <1>9 DEF old

\* the next event of an agent finds an entity, unless it creates it or changes none
LEMMA NextEvent ==
    ASSUME PulseInv, backlog # <<>>, NEW e, e = Head(backlog)
    PROVE  /\ e \in Events /\ e.id \in TokenIds
           /\ e.ev = "Hired" => e.what \in Nat
           /\ agents[e.id] = NoEntity => e.ev \in {"Registered", "Relisted"}
           /\ agents[e.id].exists => e.ev # "Registered"
           /\ agents[e.id] = NoEntity \/ agents[e.id].exists
<1>1. backlog \in Seq(Events) /\ WellTold(backlog)
  BY DEF PulseInv, PulseTypeOK
<1>2. e = backlog[1] /\ e \in Events /\ Len(backlog) \in Nat /\ Len(backlog) >= 1
  BY <1>1, Popped
<1>3. e.id \in TokenIds
  BY <1>2 DEF Events
<1>4. e.ev = "Hired" => e.what \in Nat
  <2>1. 1 \in 1 .. Len(backlog)
    BY <1>2
  <2>2. e.ev = "Hired" => e.what \in Amounts
    BY <1>1, <1>2, <2>1 DEF WellTold
  <2> QED
    BY <2>2, AmountsAssumption
<1>5. EntityInv(e.id) /\ ~NoEntity.exists
  BY <1>3, EntitiesTyped DEF PulseInv
<1>6. /\ Unborn(backlog, e.id) => e.ev = "Relisted"
      /\ Births(backlog, e.id) => e.ev \in {"Registered", "Relisted"}
      /\ Born(backlog, e.id) => e.ev # "Registered"
  BY <1>1, <1>2, <1>3, PoppedBirth
<1> QED
  BY <1>2, <1>3, <1>4, <1>5, <1>6 DEF EntityInv

(***************************************************************************)
(* Indexing an event keeps the invariant: the last word becomes what the     *)
(* entity shows.                                                             *)
(***************************************************************************)
LEMMA IndexKeeps ==
    ASSUME PulseInv, Index
    PROVE  PulseInv'
<1>1. /\ UNCHANGED vars /\ posted' = posted /\ backlog' = Tail(backlog)
      /\ backlog \in Seq(Events) /\ backlog # <<>>
      /\ agents \in [TokenIds -> Entities]
      /\ PulseTypeOK /\ WellTold(backlog) /\ RegistryInv /\ TypeOK
      /\ \A b \in TokenIds : EntityInv(b) /\ FaceInv(b)
  BY DEF Index, PulseInv, PulseTypeOK, RegistryInv
<1> PICK e \in Events : e = Head(backlog)
  BY <1>1, Popped
<1> PICK a \in TokenIds : a = e.id
  BY DEF Events
<1>2. /\ e = backlog[1] /\ e \in Events /\ backlog' \in Seq(Events)
      /\ Len(backlog) \in Nat /\ Len(backlog') = Len(backlog) - 1
      /\ \A i \in 1 .. Len(backlog') : backlog'[i] = backlog[i + 1] /\ i + 1 \in 1 .. Len(backlog)
  BY <1>1, Popped
<1>3. a \in TokenIds /\ e.id = a
  OBVIOUS
<1>4. RegistryInv' /\ TypeOK'
  BY <1>1, StepTyped, StepInv
<1>5. /\ \A b \in TokenIds : Minted(b)' <=> Minted(b)
      /\ \A b \in TokenIds, f \in Fields : Truth(b, f)' = Truth(b, f)
  BY <1>1 DEF vars, tokenVars, registryVars, agentVars, Minted, Truth
<1>6. WellTold(backlog')
  BY <1>1, <1>2 DEF WellTold
<1>7. /\ agents[a] = NoEntity => e.ev \in {"Registered", "Relisted"}
      /\ agents[a].exists => e.ev # "Registered"
      /\ agents[a] = NoEntity \/ agents[a].exists
  BY <1>1, <1>3, NextEvent
<1>8. /\ agents' \in [TokenIds -> Entities] /\ stats' \in [DOMAIN NoStats -> Nat]
      /\ \A b \in TokenIds : b # a => agents'[b] = agents[b]
      /\ agents[a] = NoEntity /\ e.ev = "Relisted" => agents'[a] = NoEntity
      /\ agents[a] = NoEntity /\ e.ev = "Registered" =>
             agents'[a].exists /\ \A f \in Fields : agents'[a][f] = Value(e, f)
      /\ agents[a].exists => Shows(agents'[a], e, agents[a])
  BY <1>1, <1>7, IndexShows
<1>9. ASSUME NEW b \in TokenIds, b # a
      PROVE  EntityInv(b)' /\ FaceInv(b)'
  <2>1. agents'[b] = agents[b] /\ ~(e.id = b)
    BY <1>8, <1>9
  <2>2. /\ Unborn(backlog, b) => Unborn(backlog', b)
        /\ Births(backlog, b) => Births(backlog', b)
        /\ Born(backlog, b) => Born(backlog', b)
    BY <1>1, <1>2, <2>1, PoppedBirth
  <2>3. EntityInv(b)'
    BY <1>1, <1>5, <2>1, <2>2 DEF EntityInv
  <2>4. ASSUME NEW f \in Fields, NEW v
        PROVE  /\ LastWord(backlog, b, f, v) => LastWord(backlog', b, f, v)
               /\ Silent(backlog, b, f) => Silent(backlog', b, f)
    <3>1. ~About(backlog[1], b, f)
      BY <1>2, <2>1 DEF About
    <3> QED
      BY <1>1, <3>1, PoppedSays
  <2>5. FaceInv(b)'
    BY <1>1, <1>5, <2>1, <2>4 DEF FaceInv
  <2> QED
    BY <2>3, <2>5
<1>10. ASSUME NEW f \in Fields, NEW v
       PROVE  /\ LastWord(backlog, a, f, v) =>
                     \/ LastWord(backlog', a, f, v)
                     \/ Says(e, f) /\ Value(e, f) = v /\ Silent(backlog', a, f)
              /\ Silent(backlog, a, f) => Silent(backlog', a, f) /\ ~Says(e, f)
  BY <1>1, <1>2, PoppedSays DEF About
<1>11. EntityInv(a)' /\ FaceInv(a)'
  <2>1. CASE ~Minted(a)
    <3>1. agents[a] = NoEntity /\ Unborn(backlog, a)
      BY <1>1, <1>3, <2>1 DEF EntityInv
    <3>2. e.ev = "Relisted" /\ Unborn(backlog', a)
      BY <1>1, <1>2, <3>1, PoppedBirth
    <3> QED
      BY <1>3, <1>5, <1>8, <2>1, <3>1, <3>2 DEF EntityInv, FaceInv
  <2>2. CASE Minted(a) /\ agents[a] = NoEntity
    <3>1. Births(backlog, a) /\ ~NoEntity.exists
      BY <1>1, <1>3, <2>2, EntitiesTyped DEF EntityInv
    <3>2. \A f \in Fields : LastWord(backlog, a, f, Truth(a, f))
      BY <1>1, <1>3, <2>2, <3>1 DEF FaceInv
    <3>3. CASE Births(backlog', a) /\ e.ev = "Relisted"
      <4>1. \A f \in Fields : LastWord(backlog', a, f, Truth(a, f))
        BY <1>10, <3>2, <3>3, BirthSpeaks
      <4> QED
        BY <1>3, <1>5, <1>8, <2>2, <3>3, <4>1 DEF EntityInv, FaceInv
    <3>4. CASE e.ev = "Registered" /\ Born(backlog', a)
      <4>1. agents'[a].exists /\ \A f \in Fields : agents'[a][f] = Value(e, f)
        BY <1>8, <2>2, <3>4
      <4>2. \A f \in Fields : \/ LastWord(backlog', a, f, Truth(a, f))
                              \/ Value(e, f) = Truth(a, f) /\ Silent(backlog', a, f)
        BY <1>10, <3>2
      <4> QED
        BY <1>3, <1>5, <2>2, <3>4, <4>1, <4>2 DEF EntityInv, FaceInv
    <3> QED
      BY <1>1, <1>2, <3>1, <3>3, <3>4, PoppedBirth
  <2>3. CASE Minted(a) /\ agents[a].exists
    <3>1. Born(backlog, a) /\ ~NoEntity.exists
      BY <1>1, <1>3, <2>3, EntitiesTyped DEF EntityInv
    <3>2. Born(backlog', a)
      BY <1>1, <3>1, PoppedBirth
    <3>3. agents'[a].exists /\ \A f \in Fields :
              agents'[a][f] = IF Says(e, f) THEN Value(e, f) ELSE agents[a][f]
      BY <1>8, <2>3 DEF Shows
    <3>4. ASSUME NEW f \in Fields
          PROVE  \/ LastWord(backlog', a, f, Truth(a, f))
                 \/ Silent(backlog', a, f) /\ agents'[a][f] = Truth(a, f)
      <4>1. \/ LastWord(backlog, a, f, Truth(a, f))
            \/ Silent(backlog, a, f) /\ agents[a][f] = Truth(a, f)
        BY <1>1, <1>3, <2>3 DEF FaceInv
      <4> QED
        BY <1>10, <3>3, <4>1
    <3> QED
      BY <1>3, <1>5, <2>3, <3>2, <3>3, <3>4 DEF EntityInv, FaceInv
  <2> QED
    BY <1>7, <2>1, <2>2, <2>3
<1>12. \A b \in TokenIds : EntityInv(b)' /\ FaceInv(b)'
  BY <1>9, <1>11
<1>13. PulseTypeOK'
  BY <1>1, <1>2, <1>4, <1>8 DEF PulseTypeOK
<1> QED
  BY <1>4, <1>6, <1>12, <1>13 DEF PulseInv
----------------------------------------------------------------------------
(***************************************************************************)
(* What a transaction tells of an agent: what it does not announce it does   *)
(* not change, and the last word it has is the new truth.                    *)
(***************************************************************************)
Told(a) ==
    /\ \/ ~Minted(a) /\ ~Minted(a)' /\ Unborn(emitted', a)
       \/ ~Minted(a) /\ Minted(a)' /\ Births(emitted', a)
       \/ Minted(a) /\ Minted(a)' /\ Born(emitted', a)
    /\ Minted(a)' => \A f \in Fields :
           \/ LastWord(emitted', a, f, Truth(a, f)')
           \/ Minted(a) /\ Silent(emitted', a, f) /\ Truth(a, f)' = Truth(a, f)

\* transactions emit one, two or three events
LEMMA OneSays ==
    ASSUME NEW e, NEW a, NEW f
    PROVE  /\ About(e, a, f) => LastWord(<<e>>, a, f, Value(e, f))
           /\ ~About(e, a, f) => Silent(<<e>>, a, f)
           /\ e.id = a /\ e.ev = "Registered" => Births(<<e>>, a)
           /\ e.ev # "Registered" => Born(<<e>>, a)
           /\ e.ev = "Relisted" => Unborn(<<e>>, a)
<1>1. Len(<<e>>) = 1 /\ <<e>>[1] = e /\ 1 .. 1 = {1}
  OBVIOUS
<1> QED
  BY <1>1 DEF LastWord, Silent, Births, Born, Unborn

LEMMA TwoSay ==
    ASSUME NEW e, NEW d, NEW a, NEW f
    PROVE  /\ About(d, a, f) => LastWord(<<e, d>>, a, f, Value(d, f))
           /\ About(e, a, f) /\ ~About(d, a, f) => LastWord(<<e, d>>, a, f, Value(e, f))
           /\ ~About(e, a, f) /\ ~About(d, a, f) => Silent(<<e, d>>, a, f)
           /\ e.id = a /\ e.ev = "Registered" /\ d.ev # "Registered" => Births(<<e, d>>, a)
           /\ e.ev # "Registered" /\ d.ev # "Registered" => Born(<<e, d>>, a)
<1> DEFINE q == <<e, d>>
<1>1. Len(q) = 2 /\ q[1] = e /\ q[2] = d /\ 1 .. 2 = {1, 2}
  OBVIOUS
<1> HIDE DEF q
<1> QED
  BY <1>1 DEF LastWord, Silent, Births, Born, q

LEMMA ThreeSay ==
    ASSUME NEW e, NEW d, NEW c, NEW a, NEW f
    PROVE  /\ About(c, a, f) => LastWord(<<e, d, c>>, a, f, Value(c, f))
           /\ About(d, a, f) /\ ~About(c, a, f) => LastWord(<<e, d, c>>, a, f, Value(d, f))
           /\ About(e, a, f) /\ ~About(d, a, f) /\ ~About(c, a, f) =>
                  LastWord(<<e, d, c>>, a, f, Value(e, f))
           /\ e.id = a /\ e.ev = "Registered" /\ d.ev # "Registered" /\ c.ev # "Registered" =>
                  Births(<<e, d, c>>, a)
<1> DEFINE q == <<e, d, c>>
<1>1. Len(q) = 3 /\ q[1] = e /\ q[2] = d /\ q[3] = c /\ 1 .. 3 = {1, 2, 3}
  OBVIOUS
<1> HIDE DEF q
<1> QED
  BY <1>1 DEF LastWord, Births, q

LEMMA OthersTold ==
    ASSUME NEW b \in TokenIds, Minted(b)' <=> Minted(b),
           Minted(b) => /\ records'[b].consent = records[b].consent
                        /\ records'[b].listed = records[b].listed
                        /\ records'[b].ensNode = records[b].ensNode,
           \A i \in 1 .. Len(emitted') :
               emitted'[i].id = b => Minted(b) /\ emitted'[i].ev \in {"Hired", "Blessed"}
    PROVE  Told(b)
<1>1. /\ Minted(b) => Born(emitted', b)
      /\ ~Minted(b) => Unborn(emitted', b)
      /\ \A f \in Fields : Silent(emitted', b, f)
  BY DEF Born, Unborn, Silent, About, Says, Fields
<1>2. Minted(b) => \A f \in Fields : Truth(b, f)' = Truth(b, f)
  BY DEF Truth, Fields
<1> QED
  BY <1>1, <1>2 DEF Told

\* statusName and _windowText say the same
LEMMA SameVocabulary ==
    ASSUME NEW status \in Consent PROVE StatusName(status) = WindowText(status)
  BY DEF Consent, Active, Paused, Withdrawn, StatusName, WindowText

LEMMA LaunchTold ==
    ASSUME RegistryInv, NEW caller \in Address, NEW operator \in Owners, NEW uri \in Uris,
           NEW hash \in Hashes, NEW label \in Labels, NEW door \in Doors,
           NEW duration \in Durations,
           LaunchAgent(caller, operator, uri, hash, label, door, duration)
    PROVE  WellTold(emitted') /\ \A b \in TokenIds : Told(b)
<1>1. NextId \in TokenIds
  BY MaxAgentsAssumption
     DEF LaunchAgent, MayCreate, NextId, RegistryInv, TypeOK, RegistryTypeOK, TokenIds
<1> PICK a \in TokenIds : a = NextId
  BY <1>1
<1>2. Mint(operator, a)
  BY DEF LaunchAgent
<1>3. subnameIssuer # NoIssuer => Namehash[<<subnameIssuer, label>>] \in Nodes
  BY IssuerDeployed DEF RegistryInv, TypeOK, RegistryTypeOK
<1> DEFINE reg == Spine("Registered", a, operator, NoNode)
           launched == Spine("AgentLaunched", a, operator, NoNode)
           Named(n) == Spine("SubnameAssigned", a, caller, n)
<1>4. \E node \in Nodes \union {NoNode} :
          /\ records' = [records EXCEPT ![a] = OpenRecord(hash, node)]
          /\ \/ emitted' = <<reg, launched, Named(node)>>
             \/ node = NoNode /\ emitted' = <<reg, launched>>
  <2>1. CASE subnameIssuer # NoIssuer
    BY <1>3, <2>1 DEF LaunchAgent
  <2>2. CASE subnameIssuer = NoIssuer
    BY <2>2 DEF LaunchAgent
  <2> QED
    BY <2>1, <2>2
<1>5. /\ reg.ev = "Registered" /\ reg.id = a /\ launched.ev = "AgentLaunched" /\ launched.id = a
      /\ \A n : /\ Named(n).ev = "SubnameAssigned" /\ Named(n).id = a
                /\ Named(n).what = n
  BY DEF Spine
<1> HIDE DEF reg, launched, Named
<1>6. PICK node \in Nodes \union {NoNode} :
          /\ records' = [records EXCEPT ![a] = OpenRecord(hash, node)]
          /\ \/ emitted' = <<reg, launched, Named(node)>>
             \/ node = NoNode /\ emitted' = <<reg, launched>>
  BY <1>4
<1>7. ~Minted(a) /\ Minted(a)' /\ \A b \in TokenIds : b # a => owners'[b] = owners[b]
  BY <1>1, <1>2 DEF Mint, Minted, RegistryInv, TypeOK, TokenTypeOK
<1>8. records'[a] = OpenRecord(hash, node) /\ \A b \in TokenIds : b # a => records'[b] = records[b]
  BY <1>1, <1>6, StorageTyped
<1>9. records'[a].consent = Active /\ records'[a].listed = TRUE /\ records'[a].ensNode = node
  BY <1>8 DEF OpenRecord
<1>10. ASSUME NEW b \in TokenIds, b # a PROVE Told(b)
  <2>1. \A i \in 1 .. Len(emitted') : emitted'[i].id = a
    BY <1>6, <1>5
  <2> QED
    BY <1>7, <1>8, <1>10, <2>1, OthersTold DEF Minted
<1>11. Births(emitted', a)
  BY <1>6, <1>5, TwoSay, ThreeSay
<1>12. /\ About(reg, a, "ensNode") /\ ~About(launched, a, "ensNode") /\ About(Named(node), a, "ensNode")
       /\ \A f \in {"consentStatus", "listed"} : About(launched, a, f) /\ ~About(Named(node), a, f)
  BY <1>5 DEF About, Says
<1>13. /\ Value(launched, "consentStatus") = "active" /\ Value(launched, "listed") = TRUE
       /\ Value(reg, "ensNode") = NoNode /\ Value(Named(node), "ensNode") = node
  BY <1>5 DEF Value
<1>14. /\ Truth(a, "consentStatus")' = "active" /\ Truth(a, "listed")' = TRUE
       /\ Truth(a, "ensNode")' = node
  BY <1>9, StatusVocabulary DEF Truth
<1>15. \A f \in Fields : LastWord(emitted', a, f, Truth(a, f)')
  <2>1. CASE emitted' = <<reg, launched, Named(node)>>
    <3>1. LastWord(emitted', a, "ensNode", node)
      BY <1>12, <1>13, <2>1, ThreeSay
    <3>2. LastWord(emitted', a, "consentStatus", "active")
      BY <1>12, <1>13, <2>1, ThreeSay
    <3>3. LastWord(emitted', a, "listed", TRUE)
      BY <1>12, <1>13, <2>1, ThreeSay
    <3> QED
      BY <1>14, <3>1, <3>2, <3>3 DEF Fields
  <2>2. CASE emitted' = <<reg, launched>> /\ node = NoNode
    BY <1>12, <1>13, <1>14, <2>2, TwoSay DEF Fields
  <2> QED
    BY <1>6, <2>1, <2>2
<1>16. Told(a)
  BY <1>7, <1>11, <1>15 DEF Told
<1>17. WellTold(emitted')
  BY <1>6, <1>5 DEF WellTold
<1> QED
  BY <1>10, <1>16, <1>17

LEMMA RegisterTold ==
    ASSUME RegistryInv, NEW caller \in Address, NEW uri \in Uris, RegisterAgent(caller, uri)
    PROVE  WellTold(emitted') /\ \A b \in TokenIds : Told(b)
<1>1. NextId \in TokenIds
  BY MaxAgentsAssumption
     DEF RegisterAgent, MayCreate, NextId, RegistryInv, TypeOK, RegistryTypeOK, TokenIds
<1> PICK a \in TokenIds : a = NextId
  BY <1>1
<1> DEFINE reg == Spine("Registered", a, caller, NoNode)
<1>2. /\ Mint(caller, a) /\ emitted' = <<reg>>
      /\ records' = [records EXCEPT ![a] = [NoRecord EXCEPT !.consent = Paused]]
  BY DEF RegisterAgent
<1>3. reg.ev = "Registered" /\ reg.id = a
  BY DEF Spine
<1> HIDE DEF reg
<1>4. ~Minted(a) /\ Minted(a)' /\ \A b \in TokenIds : b # a => owners'[b] = owners[b]
  BY <1>2 DEF Mint, Minted, RegistryInv, TypeOK, TokenTypeOK
<1>5. /\ records'[a].consent = Paused /\ records'[a].listed = FALSE /\ records'[a].ensNode = NoNode
      /\ \A b \in TokenIds : b # a => records'[b] = records[b]
  BY <1>2, StorageTyped DEF NoRecord
<1>6. ASSUME NEW b \in TokenIds, b # a PROVE Told(b)
  <2>1. \A i \in 1 .. Len(emitted') : emitted'[i].id = a
    BY <1>2, <1>3
  <2> QED
    BY <1>4, <1>5, <1>6, <2>1, OthersTold DEF Minted
<1>7. \A f \in Fields : About(reg, a, f)
  BY <1>3 DEF About, Says
<1>8. /\ Value(reg, "consentStatus") = "paused" /\ Value(reg, "listed") = FALSE
      /\ Value(reg, "ensNode") = NoNode
  BY <1>3 DEF Value
<1>9. /\ Truth(a, "consentStatus")' = "paused" /\ Truth(a, "listed")' = FALSE
      /\ Truth(a, "ensNode")' = NoNode
  BY <1>5, StatusVocabulary DEF Truth
<1>10. \A f \in Fields : LastWord(emitted', a, f, Truth(a, f)')
  BY <1>2, <1>7, <1>8, <1>9, OneSays DEF Fields
<1>11. Births(emitted', a)
  BY <1>2, <1>3, OneSays
<1>12. Told(a)
  BY <1>4, <1>10, <1>11 DEF Told
<1>13. WellTold(emitted')
  BY <1>2, <1>3 DEF WellTold
<1> QED
  BY <1>6, <1>12, <1>13

LEMMA SetConsentTold ==
    ASSUME RegistryInv, NEW caller \in Address, NEW a \in TokenIds, NEW status \in Consent,
           NEW door \in Doors, SetConsent(caller, a, status, door)
    PROVE  WellTold(emitted') /\ \A b \in TokenIds : Told(b)
<1> DEFINE flip == Spine("ConsentChanged", a, caller, status)
           off  == Spine("Delisted", a, caller, NoNode)
<1>1. /\ Minted(a) /\ records[a].listed /\ records[a] \in AgentRecord
      /\ \A b \in TokenIds : Minted(b)' <=> Minted(b)
  BY StorageTyped DEF SetConsent, MayFlip, IsApprovedOrOwner, Minted, tokenVars
<1>2. /\ records'[a].consent = status /\ records'[a].listed = ListedAfter(status)
      /\ records'[a].ensNode = records[a].ensNode
      /\ \A b \in TokenIds : b # a => records'[b] = records[b]
  BY StorageTyped DEF SetConsent, AgentRecord
<1>3. \/ ListedAfter(status) = FALSE /\ emitted' = <<flip, off>>
      \/ ListedAfter(status) = TRUE /\ emitted' = <<flip>>
  BY DEF SetConsent, ListedAfter
<1>4. /\ flip.ev = "ConsentChanged" /\ flip.id = a /\ flip.what = status
      /\ off.ev = "Delisted" /\ off.id = a
  BY DEF Spine
<1> HIDE DEF flip, off
<1>5. ASSUME NEW b \in TokenIds, b # a PROVE Told(b)
  <2>1. \A i \in 1 .. Len(emitted') : emitted'[i].id = a
    BY <1>3, <1>4
  <2> QED
    BY <1>1, <1>2, <1>5, <2>1, OthersTold
<1>6. /\ About(flip, a, "consentStatus") /\ ~About(flip, a, "listed") /\ ~About(flip, a, "ensNode")
      /\ ~About(off, a, "consentStatus") /\ About(off, a, "listed") /\ ~About(off, a, "ensNode")
  BY <1>4 DEF About, Says
<1>7. Value(flip, "consentStatus") = WindowText(status) /\ Value(off, "listed") = FALSE
  BY <1>4, SameVocabulary DEF Value
<1>8. /\ Truth(a, "consentStatus")' = WindowText(status)
      /\ Truth(a, "ensNode")' = Truth(a, "ensNode")
      /\ Truth(a, "listed")' = ListedAfter(status) /\ Truth(a, "listed") = records[a].listed
  BY <1>2 DEF Truth
<1>9. records[a].listed = TRUE
  BY <1>1 DEF AgentRecord
<1>10. Born(emitted', a)
  BY <1>3, <1>4, OneSays, TwoSay
<1>11. \A f \in Fields : \/ LastWord(emitted', a, f, Truth(a, f)')
                         \/ Silent(emitted', a, f) /\ Truth(a, f)' = Truth(a, f)
  <2>1. CASE ListedAfter(status) = FALSE /\ emitted' = <<flip, off>>
    BY <1>6, <1>7, <1>8, <2>1, TwoSay DEF Fields
  <2>2. CASE ListedAfter(status) = TRUE /\ emitted' = <<flip>>
    BY <1>6, <1>7, <1>8, <1>9, <2>2, OneSays DEF Fields
  <2> QED
    BY <1>3, <2>1, <2>2
<1>12. Told(a)
  BY <1>1, <1>10, <1>11 DEF Told
<1>13. WellTold(emitted')
  BY <1>3, <1>4 DEF WellTold
<1> QED
  BY <1>5, <1>12, <1>13

(***************************************************************************)
(* A relisting of an id nobody minted tells of nobody: it finds no withdrawn *)
(* window, and its one event is ignored.                                     *)
(***************************************************************************)
LEMMA ListingTold ==
    ASSUME RegistryInv, NEW caller \in Address, NEW a \in TokenIds,
           Delist(caller, a) \/ Relist(caller, a)
    PROVE  WellTold(emitted') /\ \A b \in TokenIds : Told(b)
<1> DEFINE off  == Spine("Delisted", a, caller, NoNode)
           on   == Spine("Relisted", a, caller, NoNode)
           flip == Spine("ConsentChanged", a, caller, Paused)
<1>1. records[a] \in AgentRecord /\ \A b \in TokenIds : Minted(b)' <=> Minted(b)
  BY StorageTyped DEF Delist, Relist, Minted, tokenVars
<1>2. /\ records'[a].ensNode = records[a].ensNode
      /\ \A b \in TokenIds : b # a => records'[b] = records[b]
      /\ \/ /\ Minted(a) /\ emitted' = <<off>>
            /\ records'[a].listed = FALSE /\ records'[a].consent = records[a].consent
         \/ /\ records[a].consent # Withdrawn /\ emitted' = <<on>>
            /\ records'[a].listed = TRUE /\ records'[a].consent = records[a].consent
         \/ /\ records[a].consent = Withdrawn /\ emitted' = <<on, flip>>
            /\ records'[a].listed = TRUE /\ records'[a].consent = Paused
  BY StorageTyped DEF Delist, Relist, AgentRecord
<1>3. /\ off.ev = "Delisted" /\ off.id = a /\ on.ev = "Relisted" /\ on.id = a
      /\ flip.ev = "ConsentChanged" /\ flip.id = a /\ flip.what = Paused
  BY DEF Spine
<1> HIDE DEF off, on, flip
<1>4. ASSUME NEW b \in TokenIds, b # a PROVE Told(b)
  <2>1. \A i \in 1 .. Len(emitted') : emitted'[i].id = a
    BY <1>2, <1>3
  <2> QED
    BY <1>1, <1>2, <1>4, <2>1, OthersTold
<1>5. /\ \A f \in {"consentStatus", "ensNode"} : ~About(off, a, f) /\ ~About(on, a, f)
      /\ About(off, a, "listed") /\ About(on, a, "listed") /\ ~About(flip, a, "listed")
      /\ About(flip, a, "consentStatus") /\ ~About(flip, a, "ensNode")
  BY <1>3 DEF About, Says
<1>6. /\ Value(off, "listed") = FALSE /\ Value(on, "listed") = TRUE
      /\ Value(flip, "consentStatus") = "paused"
  <2>1. StatusName(Paused) = "paused"
    BY StatusVocabulary DEF StatusName
  <2> QED
    BY <1>3, <2>1 DEF Value
<1>7. /\ Truth(a, "consentStatus")' = WindowText(records'[a].consent)
      /\ Truth(a, "consentStatus") = WindowText(records[a].consent)
      /\ Truth(a, "ensNode")' = Truth(a, "ensNode") /\ Truth(a, "listed")' = records'[a].listed
  BY <1>2 DEF Truth
<1>8. \A f \in Fields : \/ LastWord(emitted', a, f, Truth(a, f)')
                        \/ Silent(emitted', a, f) /\ Truth(a, f)' = Truth(a, f)
  <2>1. CASE /\ emitted' = <<off>>
             /\ records'[a].listed = FALSE /\ records'[a].consent = records[a].consent
    BY <1>5, <1>6, <1>7, <2>1, OneSays DEF Fields
  <2>2. CASE /\ emitted' = <<on>>
             /\ records'[a].listed = TRUE /\ records'[a].consent = records[a].consent
    BY <1>5, <1>6, <1>7, <2>2, OneSays DEF Fields
  <2>3. CASE /\ emitted' = <<on, flip>>
             /\ records'[a].listed = TRUE /\ records'[a].consent = Paused
    BY <1>5, <1>6, <1>7, <2>3, TwoSay, StatusVocabulary DEF Fields
  <2> QED
    BY <1>2, <2>1, <2>2, <2>3
<1>9. Born(emitted', a)
  BY <1>2, <1>3, OneSays, TwoSay
<1>10. ~Minted(a) => Unborn(emitted', a)
  <2>1. ~Minted(a) => records[a].consent = Active
    BY DEF RegistryInv, AgentsOK, AgentOK
  <2> QED
    BY <1>2, <1>3, <2>1, OneSays, StatusVocabulary
<1>11. Told(a)
  BY <1>1, <1>8, <1>9, <1>10 DEF Told
<1>12. WellTold(emitted')
  BY <1>2, <1>3 DEF WellTold
<1> QED
  BY <1>4, <1>11, <1>12

LEMMA AnchorTold ==
    ASSUME RegistryInv, NEW caller \in Address, NEW a \in TokenIds, NEW node \in Anchors,
           AnchorSubname(caller, a, node)
    PROVE  WellTold(emitted') /\ \A b \in TokenIds : Told(b)
<1> DEFINE named == Spine("SubnameAssigned", a, caller, node)
<1>1. /\ Minted(a) /\ records[a] \in AgentRecord /\ emitted' = <<named>>
      /\ \A b \in TokenIds : Minted(b)' <=> Minted(b)
  BY StorageTyped DEF AnchorSubname, MayAnchor, Minted, tokenVars
<1>2. /\ records'[a].ensNode = node /\ records'[a].listed = records[a].listed
      /\ records'[a].consent = records[a].consent
      /\ \A b \in TokenIds : b # a => records'[b] = records[b]
  BY StorageTyped DEF AnchorSubname, AgentRecord
<1>3. named.ev = "SubnameAssigned" /\ named.id = a /\ named.what = node
  BY DEF Spine
<1> HIDE DEF named
<1>4. ASSUME NEW b \in TokenIds, b # a PROVE Told(b)
  <2>1. \A i \in 1 .. Len(emitted') : emitted'[i].id = a
    BY <1>1, <1>3
  <2> QED
    BY <1>1, <1>2, <1>4, <2>1, OthersTold
<1>5. /\ ~About(named, a, "consentStatus") /\ ~About(named, a, "listed")
      /\ About(named, a, "ensNode") /\ Value(named, "ensNode") = node
  BY <1>3 DEF About, Says, Value
<1>6. /\ Truth(a, "consentStatus")' = Truth(a, "consentStatus")
      /\ Truth(a, "listed")' = Truth(a, "listed") /\ Truth(a, "ensNode")' = node
  BY <1>2 DEF Truth
<1>7. \A f \in Fields : \/ LastWord(emitted', a, f, Truth(a, f)')
                        \/ Silent(emitted', a, f) /\ Truth(a, f)' = Truth(a, f)
  BY <1>1, <1>5, <1>6, OneSays DEF Fields
<1>8. Born(emitted', a)
  BY <1>1, <1>3, OneSays
<1>9. Told(a)
  BY <1>1, <1>7, <1>8 DEF Told
<1>10. WellTold(emitted')
  BY <1>1, <1>3, PlumbingAssumption DEF WellTold
<1> QED
  BY <1>4, <1>9, <1>10

(***************************************************************************)
(* The other transactions tell of nobody: they emit nothing, or a hire or a  *)
(* blessing of an agent that exists, and change no face.                     *)
(***************************************************************************)
LEMMA TransferKeepsMinted ==
    ASSUME RegistryInv, TokenTransaction, NEW b \in TokenIds
    PROVE  Minted(b)' <=> Minted(b)
<1>1. ASSUME NEW caller \in Address, NEW t \in TokenIds, NEW to \in Owners,
             TransferFrom(caller, to, t)
      PROVE  owners'[b] # Zero <=> owners[b] # Zero
  BY <1>1 DEF TransferFrom, IsApprovedOrOwner, Minted, RegistryInv, TypeOK, TokenTypeOK
<1>2. CASE owners' = owners
  BY <1>2 DEF Minted
<1> QED
  BY <1>1, <1>2 DEF TokenTransaction, TokenNext, ApprovalNext, Approve, SetApprovalForAll, Minted

LEMMA SilentTold ==
    ASSUME RegistryInv, emitted' = <<>>,
           \A b \in TokenIds : /\ Minted(b)' <=> Minted(b)
                               /\ records'[b].consent = records[b].consent
                               /\ records'[b].listed = records[b].listed
                               /\ records'[b].ensNode = records[b].ensNode
    PROVE  WellTold(emitted') /\ \A b \in TokenIds : Told(b)
<1>1. Len(emitted') = 0 /\ 1 .. 0 = {}
  OBVIOUS
<1>2. WellTold(emitted')
  BY <1>1 DEF WellTold
<1>3. \A b \in TokenIds : Told(b)
  BY <1>1, OthersTold
<1> QED
  BY <1>2, <1>3

LEMMA HireTold ==
    ASSUME RegistryInv, NEW a \in TokenIds, Minted(a), NEW e, e.id = a,
           e.ev = "Blessed" \/ (e.ev = "Hired" /\ e.what \in Amounts),
           emitted' = <<e>>, UNCHANGED <<owners, records>>
    PROVE  WellTold(emitted') /\ \A b \in TokenIds : Told(b)
<1>1. Len(emitted') = 1 /\ emitted'[1] = e /\ 1 .. 1 = {1}
  OBVIOUS
<1>2. WellTold(emitted')
  BY <1>1 DEF WellTold
<1>3. \A b \in TokenIds : Told(b)
  BY <1>1, OthersTold DEF Minted
<1> QED
  BY <1>2, <1>3

LEMMA TransactionTold ==
    ASSUME RegistryInv, Next
    PROVE  WellTold(emitted') /\ \A b \in TokenIds : Told(b)
<1> DEFINE Goal == WellTold(emitted') /\ \A b \in TokenIds : Told(b)
<1>1. Creation => Goal
  BY LaunchTold, RegisterTold DEF Creation
<1>2. ConsentLaw => Goal
  BY SetConsentTold, ListingTold DEF ConsentLaw
<1>3. ASSUME Plumbing PROVE Goal
  <2>1. ASSUME NEW caller \in Address, NEW a \in TokenIds, NEW node \in Anchors,
               AnchorSubname(caller, a, node)
        PROVE  Goal
    BY <2>1, AnchorTold
  <2>2. CASE emitted' = <<>> /\ UNCHANGED <<owners, records>>
    BY <2>2, SilentTold DEF Minted
  <2> HIDE DEF Goal
  <2> QED
    BY <1>3, <2>1, <2>2 DEF Plumbing, SetSubnameIssuer, TransferPad, tokenVars, agentVars
<1>4. ASSUME TrustAndHire PROVE Goal
  <2>1. CASE emitted' = <<>> /\ UNCHANGED <<owners, records>>
    BY <2>1, SilentTold DEF Minted
  <2>2. ASSUME NEW r \in Rails, NEW a \in TokenIds, NEW amount \in Amounts, RecordHire(r, a, amount)
        PROVE  Goal
    <3> DEFINE e == Spine("Hired", a, r, amount)
    <3>1. e.id = a /\ e.ev = "Hired" /\ e.what = amount
      BY DEF Spine
    <3>2. Minted(a) /\ emitted' = <<e>> /\ UNCHANGED <<owners, records>>
      BY <2>2 DEF RecordHire, tokenVars, registryVars, agentVars
    <3> HIDE DEF e
    <3> QED
      BY <3>1, <3>2, HireTold
  <2>3. ASSUME NEW r \in Lanes, NEW a \in TokenIds, Bless(r, a)
        PROVE  Goal
    <3>1. PICK e : e = Spine("Blessed", a, owners[a], NoNode)
      OBVIOUS
    <3>2. e.id = a /\ e.ev = "Blessed"
      BY <3>1 DEF Spine
    <3>3. Minted(a) /\ emitted' = <<e>> /\ UNCHANGED <<owners, records>>
      BY <2>3, <3>1 DEF Bless, tokenVars, registryVars, agentVars
    <3> QED
      BY <3>2, <3>3, HireTold
  <2> HIDE DEF Goal
  <2> QED
    BY <1>4, <2>1, <2>2, <2>3
       DEF TrustAndHire, SetHireRecorder, SetBlesser, tokenVars, agentVars
<1>5. ASSUME Bindings PROVE Goal
  <2>1. emitted' = <<>> /\ owners' = owners
    BY <1>5 DEF Bindings, SetAgentURI, UpdateManifestHash, SetMetadata, tokenVars
  <2>2. CASE records' = records
    BY <2>1, <2>2, SilentTold DEF Minted
  <2>3. ASSUME NEW a \in TokenIds, NEW hash, records' = [records EXCEPT ![a].manifestHash = hash]
        PROVE  Goal
    <3>1. \A b \in TokenIds : /\ records'[b].consent = records[b].consent
                              /\ records'[b].listed = records[b].listed
                              /\ records'[b].ensNode = records[b].ensNode
      BY <2>3, StorageTyped DEF AgentRecord
    <3> QED
      BY <2>1, <3>1, SilentTold DEF Minted
  <2> HIDE DEF Goal
  <2> QED
    BY <1>5, <2>2, <2>3 DEF Bindings, SetAgentURI, UpdateManifestHash, SetMetadata
<1>6. ASSUME TokenTransaction PROVE Goal
  <2>1. emitted' = <<>> /\ records' = records
    BY <1>6 DEF TokenTransaction, registryVars, agentVars
  <2> QED
    BY <1>6, <2>1, TransferKeepsMinted, SilentTold
<1>7. ASSUME Expiry PROVE Goal
  <2>1. emitted' = <<>> /\ records' = records /\ owners' = owners
    BY <1>7 DEF Expiry, tokenVars, registryVars, agentVars
  <2> QED
    BY <2>1, SilentTold DEF Minted
<1> HIDE DEF Goal
<1>8. Goal
  BY <1>1, <1>2, <1>3, <1>4, <1>5, <1>6, <1>7 DEF Next
<1> QED
  BY <1>8 DEF Goal
----------------------------------------------------------------------------
(***************************************************************************)
(* A transaction puts its events behind the unread ones: their last word     *)
(* counts, and of what they do not mention the old last word still holds.    *)
(***************************************************************************)
LEMMA TransactKeeps ==
    ASSUME PulseInv, Transact
    PROVE  PulseInv'
<1>1. /\ Next /\ agents' = agents /\ stats' = stats /\ backlog' = backlog \o emitted'
      /\ posted' = posted + Len(emitted') /\ posted' <= MaxEvents
      /\ RegistryInv /\ TypeOK /\ PulseTypeOK /\ WellTold(backlog)
      /\ \A a \in TokenIds : EntityInv(a) /\ FaceInv(a)
  BY DEF Transact, PulseInv, RegistryInv
<1>2. RegistryInv' /\ TypeOK'
  BY <1>1, StepTyped, StepInv
<1>3. backlog \in Seq(Events) /\ emitted' \in Seq(Events)
  BY <1>1, <1>2 DEF PulseTypeOK, TypeOK
<1>4. WellTold(emitted') /\ \A b \in TokenIds : Told(b)
  BY <1>1, TransactionTold
<1>5. PICK q : q = emitted'
  OBVIOUS
<1>6. WellTold(backlog')
  <2> DEFINE n == Len(backlog)
             s == backlog \o q
  <2>1. /\ n \in Nat /\ Len(s) = n + Len(q) /\ Len(q) \in Nat
        /\ \A i \in 1 .. n : s[i] = backlog[i]
        /\ \A i \in 1 .. Len(q) : s[n + i] = q[i]
        /\ \A i \in 1 .. Len(s) : i \in 1 .. n \/ i - n \in 1 .. Len(q)
    BY <1>3, <1>5, Joined
  <2>2. WellTold(q) /\ WellTold(backlog) /\ backlog' = s
    BY <1>1, <1>4, <1>5
  <2> HIDE DEF s
  <2>3. ASSUME NEW i \in 1 .. Len(s)
        PROVE  /\ s[i].ev = "Hired" => s[i].what \in Amounts
               /\ s[i].ev = "SubnameAssigned" => s[i].what \in Nodes \union {NoNode}
    <3>1. CASE i \in 1 .. n
      BY <2>1, <2>2, <3>1 DEF WellTold
    <3>2. CASE i - n \in 1 .. Len(q)
      <4>1. n + (i - n) = i
        BY <2>1
      <4>2. s[i] = q[i - n]
        BY <2>1, <3>2, <4>1
      <4> QED
        BY <2>2, <3>2, <4>2 DEF WellTold
    <3> QED
      BY <2>1, <3>1, <3>2
  <2> QED
    BY <2>2, <2>3 DEF WellTold
<1>7. ASSUME NEW a \in TokenIds
      PROVE  EntityInv(a)' /\ FaceInv(a)'
  <2>1. /\ Told(a) /\ EntityInv(a) /\ FaceInv(a) /\ agents'[a] = agents[a]
        /\ backlog' = backlog \o q /\ q \in Seq(Events) /\ q = emitted'
    BY <1>1, <1>3, <1>4, <1>5
  <2>2. EntityInv(a)'
    BY <1>3, <2>1, JoinedBirth, EntitiesTyped DEF EntityInv, Told
  <2>3. ASSUME NEW f \in Fields, Minted(a)'
        PROVE  \/ LastWord(backlog', a, f, Truth(a, f)')
               \/ Silent(backlog', a, f) /\ agents'[a].exists /\ agents'[a][f] = Truth(a, f)'
    <3>1. CASE LastWord(q, a, f, Truth(a, f)')
      BY <1>3, <2>1, <3>1, JoinedSays
    <3>2. CASE Minted(a) /\ Silent(q, a, f) /\ Truth(a, f)' = Truth(a, f)
      <4>1. \/ LastWord(backlog, a, f, Truth(a, f))
            \/ Silent(backlog, a, f) /\ agents[a].exists /\ agents[a][f] = Truth(a, f)
        BY <2>1, <3>2 DEF FaceInv
      <4> QED
        BY <1>3, <2>1, <3>2, <4>1, JoinedSays
    <3> QED
      BY <2>1, <2>3, <3>1, <3>2 DEF Told
  <2>4. FaceInv(a)'
    BY <2>3 DEF FaceInv
  <2> QED
    BY <2>2, <2>4
<1>8. PulseTypeOK'
  <2>1. backlog' \in Seq(Events)
    BY <1>1, <1>3, Joined
  <2>2. posted' \in 0 .. MaxEvents
    <3>1. posted \in Nat /\ Len(emitted') \in Nat
      BY <1>1, <1>3 DEF PulseTypeOK
    <3> QED
      BY <1>1, <3>1, EventsAssumption
  <2> QED
    BY <1>1, <1>2, <2>1, <2>2 DEF PulseTypeOK
<1> QED
  BY <1>2, <1>6, <1>7, <1>8 DEF PulseInv

LEMMA PulseStarts == PulseInit => PulseInv
<1> SUFFICES ASSUME PulseInit PROVE PulseInv
  OBVIOUS
<1>1. /\ Init /\ posted = 0 /\ backlog = <<>> /\ stats = NoStats
      /\ agents = [a \in TokenIds |-> NoEntity]
  BY DEF PulseInit
<1>2. RegistryInv /\ TypeOK
  BY <1>1, InitInv DEF RegistryInv
<1>3. Len(backlog) = 0 /\ 1 .. 0 = {} /\ backlog \in Seq(Events)
  BY <1>1
<1>4. \A a \in TokenIds : ~Minted(a)
  BY <1>1 DEF Init, TokenInit, Minted
<1>5. NoStats \in [DOMAIN NoStats -> Nat]
  BY DEF NoStats
<1>6. PulseTypeOK
  BY <1>1, <1>2, <1>3, <1>5, EntitiesTyped, EventsAssumption DEF PulseTypeOK
<1>7. \A a \in TokenIds : EntityInv(a) /\ FaceInv(a)
  BY <1>1, <1>3, <1>4 DEF EntityInv, FaceInv, Unborn
<1>8. WellTold(backlog)
  BY <1>3 DEF WellTold
<1> QED
  BY <1>2, <1>6, <1>7, <1>8 DEF PulseInv

(***************************************************************************)
(* The chain and the indexer together keep it: the entities, types and       *)
(* unread events of every agent are in step with the registry.               *)
(***************************************************************************)
THEOREM PulseInvariant == PulseSpec => []PulseInv
<1>1. PulseInv /\ [PulseNext]_allVars => PulseInv'
  <2> SUFFICES ASSUME PulseInv, [PulseNext]_allVars PROVE PulseInv'
    OBVIOUS
  <2>1. CASE UNCHANGED allVars
    <3>1. UNCHANGED vars /\ UNCHANGED <<backlog, agents, stats, posted>>
      BY <2>1 DEF allVars, pulseVars
    <3>2. RegistryInv' /\ TypeOK'
      BY <3>1, StepTyped, StepInv DEF PulseInv, RegistryInv
    <3>3. PulseTypeOK'
      BY <3>1, <3>2 DEF PulseInv, PulseTypeOK
    <3>4. /\ \A b \in TokenIds : Minted(b)' <=> Minted(b)
          /\ \A b \in TokenIds, f \in Fields : Truth(b, f)' = Truth(b, f)
      BY <3>1 DEF vars, tokenVars, registryVars, agentVars, Minted, Truth
    <3>5. \A b \in TokenIds : EntityInv(b)' /\ FaceInv(b)'
      BY <3>1, <3>4 DEF PulseInv, EntityInv, FaceInv
    <3> QED
      BY <3>1, <3>2, <3>3, <3>5 DEF PulseInv
  <2> QED
    BY <2>1, TransactKeeps, IndexKeeps DEF PulseNext
<1> QED
  BY <1>1, PulseStarts, PTL DEF PulseSpec

(***************************************************************************)
(* Chain, queue and entities keep their types, for any agents and history.   *)
(***************************************************************************)
THEOREM PulseTyped == PulseSpec => []PulseTypeOK
<1>1. PulseInv => PulseTypeOK
  BY DEF PulseInv
<1> QED
  BY <1>1, PulseInvariant, PTL

(***************************************************************************)
(* Once every event of a minted agent is indexed, its entity shows the       *)
(* status, the listing and the node of the registry.                         *)
(***************************************************************************)
THEOREM PulseAlwaysMirrors == PulseSpec => []PulseMirrorsRegistry
<1>1. PulseInv => PulseMirrorsRegistry
  <2> SUFFICES ASSUME PulseInv, NEW a \in TokenIds, Minted(a), Pending(a) = {}
               PROVE  /\ agents[a].consentStatus = WindowText(records[a].consent)
                      /\ agents[a].listed = records[a].listed
                      /\ agents[a].ensNode = records[a].ensNode
    BY DEF PulseMirrorsRegistry
  <2>1. \A i \in 1 .. Len(backlog) : backlog[i].id # a
    <3>1. DOMAIN backlog = 1 .. Len(backlog)
      BY DEF PulseInv, PulseTypeOK
    <3> QED
      BY <3>1 DEF Pending
  <2>2. \A f \in Fields : \A v : ~LastWord(backlog, a, f, v)
    BY <2>1 DEF LastWord, About
  <2>3. \A f \in Fields : agents[a][f] = Truth(a, f)
    BY <2>2 DEF PulseInv, FaceInv
  <2> QED
    BY <2>3 DEF Truth, Fields
<1> QED
  BY <1>1, PulseInvariant, PTL
----------------------------------------------------------------------------
(***************************************************************************)
(* Every nonempty set of naturals has a least element.                       *)
(***************************************************************************)
LEMMA LeastOf ==
    ASSUME NEW T \in SUBSET Nat, T # {}
    PROVE  \E m \in T : \A k \in T : m <= k
<1> DEFINE R == OpToRel(<, Nat)
<1>1. IsWellFoundedOn(R, Nat)
  BY NatLessThanWellFounded
<1>2. \A x, y \in Nat : <<y, x>> \in R <=> y < x
  BY DEF OpToRel
<1> HIDE DEF R
<1>3. \E x \in T : \A y \in T : <<y, x>> \notin R
  BY <1>1, WFMin
<1>4. PICK x \in T : \A y \in T : <<y, x>> \notin R
  BY <1>3
<1>5. ASSUME NEW y \in T PROVE x <= y
  <2>1. x \in Nat /\ y \in Nat /\ <<y, x>> \notin R
    BY <1>4
  <2>2. ~(y < x)
    BY <1>2, <2>1
  <2> QED
    BY <2>1, <2>2
<1> QED
  BY <1>5

(***************************************************************************)
(* A sum over agents, taken one agent at a time (MapThenFoldSet): `sum` is   *)
(* the sums over all sets of agents of field f of the entities A.            *)
(***************************************************************************)
Picked(s) == CHOOSE a \in s : TRUE
SumsOn(A, f, sum, domain) ==
    sum = [s \in domain |-> IF s = {} THEN 0 ELSE A[Picked(s)][f] + sum[s \ {Picked(s)}]]
Sums(A, f, sum) == SumsOn(A, f, sum, SUBSET TokenIds)

UpTo(n) == {s \in SUBSET TokenIds : Cardinality(s) <= n}

LEMMA SetsOfAgents ==
    /\ IsFiniteSet(TokenIds) /\ SUBSET TokenIds = UpTo(Cardinality(TokenIds))
    /\ Cardinality(TokenIds) \in Nat
    /\ \A s \in SUBSET TokenIds :
          /\ Cardinality(s) \in Nat /\ (Cardinality(s) = 0 => s = {})
          /\ s # {} => /\ Picked(s) \in s /\ s \ {Picked(s)} \in SUBSET TokenIds
                       /\ Cardinality(s \ {Picked(s)}) = Cardinality(s) - 1
<1>1. IsFiniteSet(TokenIds)
  BY FS_Interval, MaxAgentsAssumption DEF TokenIds
<1>2. ASSUME NEW s \in SUBSET TokenIds
      PROVE  /\ IsFiniteSet(s) /\ Cardinality(s) \in Nat /\ (Cardinality(s) = 0 => s = {})
             /\ Cardinality(s) <= Cardinality(TokenIds)
  BY <1>1, FS_Subset, FS_CardinalityType, FS_EmptySet
<1>3. ASSUME NEW s \in SUBSET TokenIds, s # {}
      PROVE  /\ Picked(s) \in s /\ s \ {Picked(s)} \in SUBSET TokenIds
             /\ Cardinality(s \ {Picked(s)}) = Cardinality(s) - 1
  <2>1. Picked(s) \in s
    BY <1>3 DEF Picked
  <2> QED
    BY <1>2, <2>1, FS_RemoveElement
<1>4. SUBSET TokenIds = UpTo(Cardinality(TokenIds))
  BY <1>2 DEF UpTo
<1>5. Cardinality(TokenIds) \in Nat
  BY <1>2
<1> QED
  BY <1>1, <1>2, <1>3, <1>4, <1>5

(***************************************************************************)
(* The sums exist: those over sets of n agents from those over fewer.        *)
(***************************************************************************)
LEMMA SumsExist ==
    ASSUME NEW A, NEW f
    PROVE  \E sum : Sums(A, f, sum)
<1> DEFINE Bad == {n \in Nat : ~\E sum : SumsOn(A, f, sum, UpTo(n))}
<1>1. ASSUME Bad # {} PROVE FALSE
  <2>1. PICK m \in Bad : \A k \in Bad : m <= k
    BY <1>1, LeastOf
  <2> HIDE DEF Bad
  <2>2. m \in Nat /\ ~\E sum : SumsOn(A, f, sum, UpTo(m))
    BY <2>1 DEF Bad
  <2>3. m # 0
    <3> SUFFICES ASSUME m = 0 PROVE FALSE
      OBVIOUS
    <3> DEFINE zero == [s \in UpTo(m) |-> 0]
    <3>1. ASSUME NEW s \in UpTo(m) PROVE s = {}
      <4>1. s \in SUBSET TokenIds /\ Cardinality(s) <= 0
        BY DEF UpTo
      <4>2. Cardinality(s) \in Nat /\ (Cardinality(s) = 0 => s = {})
        BY <4>1, SetsOfAgents
      <4> QED
        BY <4>1, <4>2
    <3>2. SumsOn(A, f, zero, UpTo(m))
      BY <3>1 DEF SumsOn
    <3> HIDE DEF zero
    <3> QED
      BY <2>2, <3>2
  <2>4. PICK fewer : SumsOn(A, f, fewer, UpTo(m - 1))
    <3>1. m - 1 \in Nat /\ m - 1 \notin Bad
      BY <2>1, <2>2, <2>3
    <3> QED
      BY <3>1 DEF Bad
  <2> DEFINE Step(F, s) == IF s = {} THEN 0 ELSE A[Picked(s)][f] + F[s \ {Picked(s)}]
             sum == [s \in UpTo(m) |-> Step(fewer, s)]
  <2>5. ASSUME NEW s \in UpTo(m), s # {}
        PROVE  sum[s \ {Picked(s)}] = fewer[s \ {Picked(s)}]
    <3>1. s \ {Picked(s)} \in UpTo(m - 1) /\ s \ {Picked(s)} \in UpTo(m)
      BY <2>2, <2>5, SetsOfAgents DEF UpTo
    <3>2. \A r \in UpTo(m - 1) : fewer[r] = Step(fewer, r)
      BY <2>4 DEF SumsOn
    <3> QED
      BY <3>1, <3>2
  <2>6. \A s \in UpTo(m) : Step(fewer, s) = Step(sum, s)
    BY <2>5
  <2>7. sum = [s \in UpTo(m) |-> Step(sum, s)]
    <3> HIDE DEF Step
    <3> QED
      BY <2>6
  <2>8. SumsOn(A, f, sum, UpTo(m))
    BY <2>7 DEF SumsOn
  <2> QED
    BY <2>2, <2>8
<1>2. Cardinality(TokenIds) \notin Bad
  BY <1>1
<1> QED
  BY <1>2, SetsOfAgents DEF Sums

(***************************************************************************)
(* One agent's field grows by k: so does every sum over a set it is in.      *)
(***************************************************************************)
LEMMA SumsGrow ==
    ASSUME NEW A, NEW B, NEW f, NEW old, NEW new, Sums(A, f, old), Sums(B, f, new),
           NEW b, NEW k \in Nat,
           \A a \in TokenIds : A[a][f] \in Nat /\ B[a][f] = A[a][f] + (IF a = b THEN k ELSE 0)
    PROVE  \A s \in SUBSET TokenIds :
               old[s] \in Nat /\ new[s] = old[s] + (IF b \in s THEN k ELSE 0)
<1> DEFINE Good(s) == old[s] \in Nat /\ new[s] = old[s] + (IF b \in s THEN k ELSE 0)
           Bad == {n \in Nat : \E s \in SUBSET TokenIds : Cardinality(s) = n /\ ~Good(s)}
<1>1. ASSUME Bad # {} PROVE FALSE
  <2>1. PICK m \in Bad : \A j \in Bad : m <= j
    BY <1>1, LeastOf
  <2>2. PICK s \in SUBSET TokenIds : Cardinality(s) = m /\ ~Good(s)
    BY <2>1
  <2>3. s # {}
    <3>1. s = {} => old[s] = 0 /\ new[s] = 0 /\ b \notin s
      BY DEF Sums, SumsOn
    <3> QED
      BY <2>2, <3>1
  <2>4. /\ Picked(s) \in s /\ Picked(s) \in TokenIds
        /\ s \ {Picked(s)} \in SUBSET TokenIds
        /\ Cardinality(s \ {Picked(s)}) = m - 1 /\ m - 1 \in Nat /\ m \in Nat
    BY <2>2, <2>3, SetsOfAgents
  <2>5. Good(s \ {Picked(s)})
    <3>1. m - 1 \notin Bad
      BY <2>1, <2>4
    <3> QED
      BY <2>4, <3>1
  <2>6. /\ old[s] = A[Picked(s)][f] + old[s \ {Picked(s)}]
        /\ new[s] = B[Picked(s)][f] + new[s \ {Picked(s)}]
    BY <2>3 DEF Sums, SumsOn
  <2>7. b \in s <=> b = Picked(s) \/ b \in s \ {Picked(s)}
    BY <2>4
  <2> QED
    BY <2>2, <2>4, <2>5, <2>6, <2>7
<1>2. \A s \in SUBSET TokenIds : Good(s)
  BY <1>1, SetsOfAgents
<1> QED
  BY <1>2

(***************************************************************************)
(* Summed is such a sum, over all agents.                                    *)
(***************************************************************************)
LEMMA SummedIs ==
    ASSUME NEW f
    PROVE  \E sum : Sums(agents, f, sum) /\ Summed(f) = sum[TokenIds]
<1> DEFINE total == CHOOSE sum : Sums(agents, f, sum)
<1>1. Summed(f) = total[TokenIds]
  BY DEF Summed, MapThenFoldSet, Sums, SumsOn, Picked
<1>2. Sums(agents, f, total)
  BY SumsExist
<1> QED
  BY <1>1, <1>2

LEMMA SummedGrows ==
    ASSUME NEW f, NEW b \in TokenIds, NEW k \in Nat,
           \A a \in TokenIds :
               agents[a][f] \in Nat /\ agents'[a][f] = agents[a][f] + (IF a = b THEN k ELSE 0)
    PROVE  Summed(f) \in Nat /\ Summed(f)' = Summed(f) + k
<1>1. PICK old : Sums(agents, f, old) /\ Summed(f) = old[TokenIds]
  BY SummedIs
<1>2. PICK new : Sums(agents', f, new) /\ Summed(f)' = new[TokenIds]
  <2> DEFINE total == CHOOSE sum : Sums(agents', f, sum)
  <2>1. Summed(f)' = total[TokenIds]
    BY DEF Summed, MapThenFoldSet, Sums, SumsOn, Picked
  <2>2. Sums(agents', f, total)
    BY SumsExist
  <2> QED
    BY <2>1, <2>2
<1>3. old[TokenIds] \in Nat /\ new[TokenIds] = old[TokenIds] + k
  BY <1>1, <1>2, SumsGrow
<1> QED
  BY <1>1, <1>2, <1>3

(***************************************************************************)
(* Sums over entities that count nothing are 0.                              *)
(***************************************************************************)
LEMMA NothingSummed ==
    ASSUME NEW f, \A a \in TokenIds : agents[a][f] = 0
    PROVE  Summed(f) = 0
<1>1. PICK sum : Sums(agents, f, sum) /\ Summed(f) = sum[TokenIds]
  BY SummedIs
<1> DEFINE Bad == {n \in Nat : \E s \in SUBSET TokenIds : Cardinality(s) = n /\ sum[s] # 0}
<1>2. ASSUME Bad # {} PROVE FALSE
  <2>1. PICK m \in Bad : \A j \in Bad : m <= j
    BY <1>2, LeastOf
  <2>2. PICK s \in SUBSET TokenIds : Cardinality(s) = m /\ sum[s] # 0
    BY <2>1
  <2>3. s # {} /\ sum[s] = agents[Picked(s)][f] + sum[s \ {Picked(s)}]
    BY <1>1, <2>2 DEF Sums, SumsOn
  <2>4. /\ Picked(s) \in TokenIds /\ s \ {Picked(s)} \in SUBSET TokenIds
        /\ Cardinality(s \ {Picked(s)}) = m - 1 /\ m - 1 \in Nat
    BY <2>2, <2>3, SetsOfAgents
  <2>5. m - 1 \notin Bad
    BY <2>1, <2>4
  <2>6. sum[s \ {Picked(s)}] = 0
    BY <2>4, <2>5
  <2> QED
    BY <2>2, <2>3, <2>4, <2>6
<1>3. \A s \in SUBSET TokenIds : sum[s] = 0
  BY <1>2, SetsOfAgents
<1> QED
  BY <1>1, <1>3

(***************************************************************************)
(* What an event adds to a counter of its agent's entity, and the total of   *)
(* PulseStats that counts the same.                                          *)
(***************************************************************************)
Counters == {"hireCount", "hiredAmount", "blessCount"}

Gain(e, f) ==
    CASE e.ev = "Hired" /\ f = "hireCount" -> 1
      [] e.ev = "Hired" /\ f = "hiredAmount" -> e.what
      [] e.ev = "Blessed" /\ f = "blessCount" -> 1
      [] OTHER -> 0

Total(f) ==
    CASE f = "hireCount" -> "hires" [] f = "hiredAmount" -> "hiredAmount" [] OTHER -> "blessings"

(***************************************************************************)
(* An event adds to its agent's entity what it adds to the total.            *)
(***************************************************************************)
LEMMA IndexCounts ==
    ASSUME PulseInv, Index, NEW e, e = Head(backlog), NEW f \in Counters
    PROVE  /\ e.id \in TokenIds /\ Gain(e, f) \in Nat
           /\ \A a \in TokenIds :
                 /\ agents[a][f] \in Nat
                 /\ agents'[a][f] = agents[a][f] + (IF a = e.id THEN Gain(e, f) ELSE 0)
           /\ stats'[Total(f)] = stats[Total(f)] + Gain(e, f)
<1> DEFINE old == agents[e.id]
<1>1. /\ e.id \in TokenIds /\ (e.ev = "Hired" => e.what \in Nat)
      /\ old = NoEntity => e.ev \in {"Registered", "Relisted"}
      /\ old.exists => e.ev # "Registered"
      /\ old = NoEntity \/ old.exists
  BY NextEvent DEF Index
<1>2. /\ agents \in [TokenIds -> Entities] /\ stats \in [DOMAIN NoStats -> Nat]
      /\ old \in Entities /\ ~NoEntity.exists
  BY <1>1, EntitiesTyped DEF PulseInv, PulseTypeOK
<1>3. \A a \in TokenIds : agents[a][f] \in Nat
  BY <1>2 DEF Entities, Counters
<1>4. Total(f) \in DOMAIN NoStats /\ stats[Total(f)] \in Nat
  BY <1>2 DEF Total, NoStats, Counters
<1>5. Gain(e, f) \in Nat
  BY <1>1 DEF Gain
<1>6. ASSUME NEW entity, agents' = [agents EXCEPT ![e.id] = entity],
             entity[f] = old[f] + Gain(e, f)
      PROVE  \A a \in TokenIds :
                 agents'[a][f] = agents[a][f] + (IF a = e.id THEN Gain(e, f) ELSE 0)
  BY <1>1, <1>2, <1>3, <1>6
<1>7. \A total \in {"registered", "agents", "consentChanges", "delists", "relists"} :
          Total(f) # total /\ total \in DOMAIN NoStats
  BY DEF Total, NoStats
<1>8. ASSUME NEW entity, NEW total, Handled(e, entity, total), entity[f] = old[f],
             total \in {"registered", "agents", "consentChanges", "delists", "relists"},
             e.ev \notin {"Hired", "Blessed"}
      PROVE  /\ \A a \in TokenIds :
                    agents'[a][f] = agents[a][f] + (IF a = e.id THEN Gain(e, f) ELSE 0)
             /\ stats'[Total(f)] = stats[Total(f)] + Gain(e, f)
  <2>1. Gain(e, f) = 0
    BY <1>8 DEF Gain
  <2>2. stats'[Total(f)] = stats[Total(f)]
    BY <1>2, <1>4, <1>7, <1>8 DEF Handled
  <2>3. entity[f] = old[f] + Gain(e, f)
    BY <1>1, <1>3, <1>8, <2>1
  <2>4. agents' = [agents EXCEPT ![e.id] = entity]
    BY <1>8 DEF Handled
  <2>5. stats'[Total(f)] = stats[Total(f)] + Gain(e, f)
    BY <1>4, <2>1, <2>2
  <2> QED
    BY <1>6, <2>3, <2>4, <2>5
<1>9. CASE e.ev = "Registered" /\ HandleRegistered(e)
  <2>1. ~old.exists /\ old = NoEntity
    BY <1>1, <1>9
  <2>2. Handled(e, [NewAgent EXCEPT !.operator = e.who], "registered")
    BY <1>9, <2>1 DEF HandleRegistered
  <2>3. [NewAgent EXCEPT !.operator = e.who][f] = NoEntity[f]
    BY DEF NewAgent, NoEntity, Counters
  <2> QED
    BY <1>1, <1>3, <1>5, <1>8, <1>9, <2>1, <2>2, <2>3
<1>10. CASE e.ev = "AgentLaunched" /\ HandleAgentLaunched(e)
  <2>1. old.exists
    BY <1>1, <1>10
  <2> DEFINE entity == [old EXCEPT !.operator = e.who, !.consentStatus = "active",
                                   !.listed = TRUE, !.registeredOnly = FALSE]
  <2>2. Handled(e, entity, "agents")
    BY <1>10, <2>1 DEF HandleAgentLaunched
  <2>3. entity[f] = old[f]
    BY <1>2 DEF Entities, Counters
  <2> HIDE DEF entity
  <2> QED
    BY <1>1, <1>3, <1>5, <1>8, <1>10, <2>2, <2>3
<1>11. CASE e.ev = "ConsentChanged" /\ HandleConsentChanged(e)
  <2> DEFINE entity == [old EXCEPT !.consentStatus = StatusName(e.what)]
  <2>1. Handled(e, entity, "consentChanges")
    BY <1>1, <1>11 DEF HandleConsentChanged, IfLoaded
  <2>2. entity[f] = old[f]
    BY <1>2 DEF Entities, Counters
  <2> HIDE DEF entity
  <2> QED
    BY <1>1, <1>3, <1>5, <1>8, <1>11, <2>1, <2>2
<1>12. CASE e.ev = "Delisted" /\ HandleDelisted(e)
  <2> DEFINE entity == [old EXCEPT !.listed = FALSE]
  <2>1. Handled(e, entity, "delists")
    BY <1>1, <1>12 DEF HandleDelisted, IfLoaded
  <2>2. entity[f] = old[f]
    BY <1>2 DEF Entities, Counters
  <2> HIDE DEF entity
  <2> QED
    BY <1>1, <1>3, <1>5, <1>8, <1>12, <2>1, <2>2
<1>13. CASE e.ev = "Relisted" /\ HandleRelisted(e)
  <2> DEFINE entity == IfLoaded(e, [old EXCEPT !.listed = TRUE])
  <2>1. Handled(e, entity, "relists")
    BY <1>13 DEF HandleRelisted
  <2>2. entity[f] = old[f]
    <3>1. [old EXCEPT !.listed = TRUE][f] = old[f]
      BY <1>2 DEF Entities, Counters
    <3> QED
      BY <1>1, <3>1 DEF IfLoaded
  <2> HIDE DEF entity
  <2> QED
    BY <1>1, <1>3, <1>5, <1>8, <1>13, <2>1, <2>2
<1>14. CASE e.ev = "SubnameAssigned" /\ HandleSubnameAssigned(e)
  <2> DEFINE entity == [old EXCEPT !.ensNode = e.what]
  <2>1. agents' = [agents EXCEPT ![e.id] = entity] /\ stats' = stats
    BY <1>1, <1>14 DEF HandleSubnameAssigned, IfLoaded
  <2>2. entity[f] = old[f]
    BY <1>2 DEF Entities, Counters
  <2>3. Gain(e, f) = 0
    BY <1>14 DEF Gain
  <2> HIDE DEF entity
  <2>4. old[f] = old[f] + Gain(e, f) /\ stats[Total(f)] = stats[Total(f)] + Gain(e, f)
    BY <1>1, <1>3, <1>4, <2>3
  <2> QED
    BY <1>1, <1>3, <1>5, <1>6, <2>1, <2>2, <2>4
<1>15. CASE e.ev = "Hired" /\ HandleHired(e)
  <2>1. old.hireCount \in Nat /\ old.hiredAmount \in Nat /\ e.what \in Nat
    BY <1>1, <1>2, <1>15 DEF Entities
  <2> DEFINE entity == [old EXCEPT !.hireCount = @ + 1, !.hiredAmount = @ + e.what]
  <2>2. agents' = [agents EXCEPT ![e.id] = entity]
    BY <1>1, <1>15 DEF HandleHired, IfLoaded
  <2>3. entity[f] = old[f] + Gain(e, f)
    <3>1. /\ f = "hireCount" => entity[f] = old.hireCount + 1 /\ Gain(e, f) = 1
          /\ f = "hiredAmount" => entity[f] = old.hiredAmount + e.what /\ Gain(e, f) = e.what
          /\ f = "blessCount" => entity[f] = old.blessCount /\ Gain(e, f) = 0
      BY <1>2, <1>15 DEF Entities, Gain
    <3> HIDE DEF entity
    <3> QED
      BY <1>1, <1>3, <2>1, <3>1 DEF Counters
  <2>4. stats'[Total(f)] = stats[Total(f)] + Gain(e, f)
    <3>1. /\ f = "hireCount" => Total(f) = "hires" /\ Gain(e, f) = 1
          /\ f = "hiredAmount" => Total(f) = "hiredAmount" /\ Gain(e, f) = e.what
          /\ f = "blessCount" => Total(f) = "blessings" /\ Gain(e, f) = 0
      BY <1>15 DEF Total, Gain
    <3>2. /\ stats'["hires"] = stats["hires"] + 1
          /\ stats'["hiredAmount"] = stats["hiredAmount"] + e.what
          /\ stats'["blessings"] = stats["blessings"]
      BY <1>2, <1>15 DEF HandleHired, NoStats
    <3> QED
      BY <1>4, <3>1, <3>2 DEF Counters
  <2> HIDE DEF entity
  <2> QED
    BY <1>1, <1>3, <1>5, <1>6, <2>2, <2>3, <2>4
<1>16. CASE e.ev = "Blessed" /\ HandleBlessed(e)
  <2>1. old.blessCount \in Nat
    BY <1>1, <1>2 DEF Entities
  <2> DEFINE entity == [old EXCEPT !.blessCount = @ + 1]
  <2>2. Handled(e, entity, "blessings")
    BY <1>1, <1>16 DEF HandleBlessed, IfLoaded
  <2>3. entity[f] = old[f] + Gain(e, f)
    <3>1. /\ f = "blessCount" => entity[f] = old.blessCount + 1 /\ Gain(e, f) = 1
          /\ f # "blessCount" => entity[f] = old[f] /\ Gain(e, f) = 0
      BY <1>2, <1>16 DEF Entities, Gain, Counters
    <3> HIDE DEF entity
    <3> QED
      BY <1>1, <1>3, <2>1, <3>1
  <2>4. stats'[Total(f)] = stats[Total(f)] + Gain(e, f)
    <3>1. /\ f = "blessCount" => Total(f) = "blessings" /\ Gain(e, f) = 1
          /\ f # "blessCount" => Total(f) # "blessings" /\ Gain(e, f) = 0
      BY <1>16 DEF Total, Gain, Counters
    <3>2. stats'["blessings"] = stats["blessings"] + 1
      BY <1>2, <2>2 DEF Handled, NoStats
    <3>3. Total(f) # "blessings" => stats'[Total(f)] = stats[Total(f)]
      BY <1>2, <1>4, <2>2 DEF Handled
    <3> QED
      BY <1>4, <3>1, <3>2, <3>3
  <2> HIDE DEF entity
  <2>5. agents' = [agents EXCEPT ![e.id] = entity]
    BY <2>2 DEF Handled
  <2> QED
    BY <1>1, <1>3, <1>5, <1>6, <2>3, <2>4, <2>5
<1> QED
  BY <1>9, <1>10, <1>11, <1>12, <1>13, <1>14, <1>15, <1>16 DEF Index

(***************************************************************************)
(* The totals of PulseStats are the sums over the entities, for any agents,  *)
(* any history and any delay of the indexer: a handler adds the same to both *)
(* because no hire and no blessing is read before its agent's entity is      *)
(* there.                                                                    *)
(***************************************************************************)
AddedUp == \A f \in Counters : Summed(f) = stats[Total(f)]

THEOREM TotalsAlwaysAddUp == PulseSpec => []TotalsAddUp
<1>1. PulseInit => AddedUp
  <2> SUFFICES ASSUME PulseInit, NEW f \in Counters PROVE Summed(f) = stats[Total(f)]
    BY DEF AddedUp
  <2>1. \A a \in TokenIds : agents[a][f] = 0
    <3>1. NoEntity.hireCount = 0 /\ NoEntity.hiredAmount = 0 /\ NoEntity.blessCount = 0
      BY DEF NoEntity
    <3>2. NoEntity[f] = 0
      BY <3>1 DEF Counters
    <3> QED
      BY <3>2 DEF PulseInit
  <2>2. stats[Total(f)] = 0
    BY DEF PulseInit, NoStats, Total
  <2> QED
    BY <2>1, <2>2, NothingSummed
<1>2. PulseInv /\ AddedUp /\ [PulseNext]_allVars => AddedUp'
  <2> SUFFICES ASSUME PulseInv, AddedUp, [PulseNext]_allVars, NEW f \in Counters
               PROVE  Summed(f)' = stats'[Total(f)]
    BY DEF AddedUp
  <2>1. CASE agents' = agents /\ stats' = stats
    <3>1. Summed(f)' = Summed(f)
      BY <2>1 DEF Summed, MapThenFoldSet
    <3> QED
      BY <2>1, <3>1 DEF AddedUp
  <2>2. CASE Index
    <3> DEFINE e == Head(backlog)
    <3>1. /\ e.id \in TokenIds /\ Gain(e, f) \in Nat
          /\ \A a \in TokenIds :
                /\ agents[a][f] \in Nat
                /\ agents'[a][f] = agents[a][f] + (IF a = e.id THEN Gain(e, f) ELSE 0)
          /\ stats'[Total(f)] = stats[Total(f)] + Gain(e, f)
      BY <2>2, IndexCounts
    <3> HIDE DEF e
    <3>2. Summed(f)' = Summed(f) + Gain(e, f)
      BY <3>1, SummedGrows
    <3> QED
      BY <3>1, <3>2 DEF AddedUp
  <2>3. PulseNext => Index \/ (agents' = agents /\ stats' = stats)
    BY DEF PulseNext, Transact
  <2>4. UNCHANGED allVars => agents' = agents /\ stats' = stats
    BY DEF allVars, pulseVars
  <2> QED
    BY <2>1, <2>2, <2>3, <2>4
<1>3. PulseInv /\ AddedUp => TotalsAddUp
  BY DEF PulseInv, AddedUp, TotalsAddUp, Counters, Total
<1> QED
  BY <1>1, <1>2, <1>3, PulseInvariant, PTL DEF PulseSpec
=============================================================================
