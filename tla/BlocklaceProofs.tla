--------------------------- MODULE BlocklaceProofs ---------------------------
(***************************************************************************)
(* Proofs about Blocklace, for any sets of honest and Byzantine nodes,      *)
(* calls, handlers and identifiers.                                         *)
(*                                                                          *)
(* Who can be accused is not inductive.  Inv adds what makes it so: a       *)
(* miner's DAG holds headers that were sent and is closed under             *)
(* predecessors; every round is what calculateRound gives; the tips, and    *)
(* the tips a lone proposal has read, reach at least the round of every     *)
(* vertex of the proposer; a miner's own headers are in its own DAG as it   *)
(* sent them; rounds agree on what rests on nothing sent in two versions.   *)
(*                                                                          *)
(* From Inv follows the order of delivery, since a DAG that is closed under *)
(* predecessors delivers what it inserts at once.                           *)
(***************************************************************************)
EXTENDS Blocklace, TLAPS

\* The vertices of miner n other than genesis.
Added(n) == vertices[n] \ {Genesis}

\* Each DAG holds only headers that were sent and is closed under predecessors.
Closed ==
    \A n \in Honest :
      /\ Genesis \in vertices[n]
      /\ tracked[n] = Added(n)
      /\ tips[n] \subseteq Added(n)
      /\ \A v \in Added(n) : /\ header[n][v] \in sent
                             /\ header[n][v].id = v
                             /\ header[n][v].preds \subseteq vertices[n]

\* Handlers hold headers that were sent.
InboxKnown ==
    \A n \in Honest, h \in Handlers : inbox[n][h] # NoHeader => inbox[n][h] \in sent

\* A proposal is by its miner, on vertices of its DAG, under an identifier
\* that nothing else has.
OutboxFresh ==
    /\ \A x \in sent : x.id \in drawn
    /\ \A n \in Honest, c \in Callers : outbox[n][c] # NoHeader =>
         /\ outbox[n][c].author = n
         /\ outbox[n][c].preds \subseteq Added(n)
         /\ outbox[n][c].id \in drawn
         /\ \A x \in sent : x.id # outbox[n][c].id
         /\ \A m \in Honest, d \in Callers :
              outbox[m][d] # NoHeader /\ outbox[m][d].id = outbox[n][c].id => m = n /\ d = c

\* Rounds are the ones calculateRound gives.
Rounds ==
    \A n \in Honest : \A v \in Added(n) : rnd[n][v] \in calculateRound(n, header[n][v].preds)

\* One vertex per author and round in each DAG.
NoFork ==
    \A n \in Honest : \A v, w \in Added(n) :
      header[n][v].author = header[n][w].author /\ rnd[n][v] = rnd[n][w] => v = w

\* The tips reach at least the round of every vertex.
TipsCover ==
    \A n \in Honest : \A v \in Added(n) : \E t \in tips[n] : rnd[n][v] <= rnd[n][t]

\* A miner's own headers are in its own DAG.
OwnHeaders ==
    \A x \in sent : x.author \in Honest =>
      x.id \in vertices[x.author] /\ header[x.author][x.id] = x

\* While no two proposals of a miner have overlapped, the tips its proposal
\* has read reach the round of every vertex of its own.
SnapshotCovers ==
    \A n \in Honest \ raced : \A c \in Callers : outbox[n][c] # NoHeader =>
      /\ \A d \in Callers : outbox[n][d] # NoHeader => d = c
      /\ \A v \in Added(n) : header[n][v].author = n =>
           \E t \in outbox[n][c].preds : rnd[n][v] <= rnd[n][t]

DagInv == Closed /\ Rounds /\ NoFork /\ TipsCover

Inv ==
    /\ TypeOK
    /\ DagInv
    /\ InboxKnown
    /\ OutboxFresh
    /\ OwnHeaders
    /\ SnapshotCovers
    /\ RoundAgreement
    /\ HonestNeverAccused

-----------------------------------------------------------------------------

\* calculateRound gives at most one round, and the same one to two miners
\* that agree on the rounds of the predecessors.
LEMMA RoundUnique ==
    ASSUME TypeOK, NEW m \in Honest, NEW n \in Honest, NEW P \in SUBSET Vertices,
           \A p \in P : rnd[m][p] = rnd[n][p],
           NEW q \in calculateRound(m, P), NEW r \in calculateRound(n, P)
    PROVE  q = r
  BY DEF TypeOK, calculateRound

\* A round computed by calculateRound is a natural number above those of the
\* predecessors.
LEMMA RoundAbove ==
    ASSUME TypeOK, NEW n \in Honest, NEW P \in SUBSET Vertices,
           NEW r \in calculateRound(n, P)
    PROVE  r \in Nat /\ \A p \in P : r > rnd[n][p]
  BY DEF TypeOK, calculateRound

\* Initially every DAG is the genesis vertex.
LEMMA InitInv == Init => Inv
  <1> SUFFICES ASSUME Init PROVE Inv
    OBVIOUS
  <1>1. TypeOK
    BY BlocklaceAssumption DEF Init, TypeOK, Vertices
  <1>2. DagInv
    BY DEF Init, DagInv, Closed, Rounds, NoFork, TipsCover, Added
  <1>3. InboxKnown /\ OutboxFresh /\ OwnHeaders /\ SnapshotCovers
    BY DEF Init, InboxKnown, OutboxFresh, OwnHeaders, SnapshotCovers
  <1>4. RoundAgreement /\ HonestNeverAccused
    BY DEF Init, RoundAgreement, HonestNeverAccused, Vertices
  <1> QED BY <1>1, <1>2, <1>3, <1>4 DEF Inv

-----------------------------------------------------------------------------
(* What a step may do to the network and to the DAGs. *)

\* Headers are sent, never taken back, and a vertex never changes.
DagGrows ==
    /\ sent \subseteq sent'
    /\ \A n \in Honest :
         /\ vertices[n] \subseteq vertices'[n]
         /\ \A v \in vertices[n] : header'[n][v] = header[n][v] /\ rnd'[n][v] = rnd[n][v]

\* The DAGs stay correct when none of them changes.
LEMMA KeepDag ==
    ASSUME TypeOK, DagInv, sent \subseteq sent', UNCHANGED <<vertices, header, rnd, tips, tracked>>
    PROVE  DagInv'
  <1>1. Closed'
    BY DEF DagInv, Closed, Added
  <1>2. Rounds' /\ NoFork' /\ TipsCover'
    BY DEF DagInv, Rounds, NoFork, TipsCover, Added, calculateRound
  <1> QED BY <1>1, <1>2 DEF DagInv

\* A header x is inserted in miner n's DAG at round r.
Inserts(n, x, r) ==
    /\ x \in sent' /\ x \in Headers
    /\ x.id \notin vertices[n] /\ x.preds \subseteq vertices[n]
    /\ r \in calculateRound(n, x.preds)
    /\ ~ detectEquivocation(n, x, r)
    /\ insertVertex(n, x, r)

\* What an insertion changes.
LEMMA InsertEffect ==
    ASSUME TypeOK, NEW n \in Honest, NEW x, NEW r, Inserts(n, x, r)
    PROVE  /\ x.id \in Ids /\ x.id # Genesis /\ x.preds \in SUBSET Vertices /\ x.author \in Nodes
           /\ r \in Nat /\ \A p \in x.preds : r > rnd[n][p]
           /\ \A m \in Honest : m # n =>
                /\ vertices'[m] = vertices[m] /\ tracked'[m] = tracked[m]
                /\ tips'[m] = tips[m] /\ rnd'[m] = rnd[m] /\ header'[m] = header[m]
           /\ vertices'[n] = vertices[n] \cup {x.id}
           /\ tracked'[n] = tracked[n] \cup {x.id}
           /\ tips'[n] = (tips[n] \cup {x.id}) \ x.preds
           /\ rnd'[n][x.id] = r
           /\ header'[n][x.id] = x
           /\ \A v \in vertices[n] : rnd'[n][v] = rnd[n][v] /\ header'[n][v] = header[n][v]
           /\ byzantine' = byzantine
  <1>1. x.id \in Ids /\ x.id # Genesis /\ x.preds \in SUBSET Vertices /\ x.author \in Nodes
    BY BlocklaceAssumption DEF Inserts, Headers
  <1>2. r \in Nat /\ \A p \in x.preds : r > rnd[n][p]
    BY <1>1, RoundAbove DEF Inserts
  <1>3. /\ vertices' = [vertices EXCEPT ![n] = @ \cup {x.id}]
        /\ tracked' = [tracked EXCEPT ![n] = @ \cup {x.id}]
        /\ header' = [header EXCEPT ![n][x.id] = x]
        /\ rnd' = [rnd EXCEPT ![n][x.id] = r]
        /\ tips' = [tips EXCEPT ![n] = (@ \cup {x.id}) \ x.preds]
        /\ byzantine' = byzantine
    BY DEF Inserts, insertVertex, updateTips
  <1>4. \A m \in Honest : m # n =>
          /\ vertices'[m] = vertices[m] /\ tracked'[m] = tracked[m]
          /\ tips'[m] = tips[m] /\ rnd'[m] = rnd[m] /\ header'[m] = header[m]
    BY <1>3 DEF TypeOK
  <1>5. /\ vertices'[n] = vertices[n] \cup {x.id}
        /\ tracked'[n] = tracked[n] \cup {x.id}
        /\ tips'[n] = (tips[n] \cup {x.id}) \ x.preds
    BY <1>3 DEF TypeOK
  <1>6. rnd'[n][x.id] = r /\ \A v \in vertices[n] : rnd'[n][v] = rnd[n][v]
    BY <1>1, <1>3 DEF TypeOK, Vertices, Inserts
  <1>7. header'[n][x.id] = x /\ \A v \in vertices[n] : header'[n][v] = header[n][v]
    BY <1>1, <1>3 DEF TypeOK, Vertices, Inserts
  <1> QED BY <1>1, <1>2, <1>3, <1>4, <1>5, <1>6, <1>7

\* The DAGs stay correct when a header that does not equivocate is inserted
\* in one of them.
LEMMA InsertDag ==
    ASSUME TypeOK, DagInv, sent \subseteq sent', NEW n \in Honest, NEW x, NEW r, Inserts(n, x, r)
    PROVE  DagInv' /\ DagGrows
  <1> DEFINE i == x.id
  <1>1. /\ i \in Ids /\ i # Genesis /\ x.preds \in SUBSET Vertices
        /\ r \in Nat /\ \A p \in x.preds : r > rnd[n][p]
        /\ x \in sent' /\ i \notin vertices[n] /\ x.preds \subseteq vertices[n]
    BY InsertEffect DEF Inserts
  <1>4. ASSUME NEW m \in Honest, m # n
        PROVE  /\ vertices'[m] = vertices[m] /\ tracked'[m] = tracked[m]
               /\ tips'[m] = tips[m] /\ rnd'[m] = rnd[m] /\ header'[m] = header[m]
    BY <1>4, InsertEffect
  <1>5. /\ vertices'[n] = vertices[n] \cup {i}
        /\ tracked'[n] = tracked[n] \cup {i}
        /\ tips'[n] = (tips[n] \cup {i}) \ x.preds
        /\ rnd'[n][i] = r /\ header'[n][i] = x
        /\ \A v \in vertices[n] : rnd'[n][v] = rnd[n][v] /\ header'[n][v] = header[n][v]
    BY InsertEffect
  <1>a. ~ detectEquivocation(n, x, r) /\ r \in calculateRound(n, x.preds)
    BY DEF Inserts
  <1>b. \A v \in Added(n) : header[n][v].author = x.author => rnd[n][v] # r
    BY <1>1, <1>a DEF detectEquivocation, DagInv, Closed, Added
  <1>c. x.id = i
    OBVIOUS
  <1> HIDE DEF i
  <1>6. Closed'
    <2> SUFFICES ASSUME NEW m \in Honest
                 PROVE  /\ Genesis \in vertices'[m]
                        /\ tracked'[m] = Added(m)'
                        /\ tips'[m] \subseteq Added(m)'
                        /\ \A v \in Added(m)' : /\ header'[m][v] \in sent'
                                                /\ header'[m][v].id = v
                                                /\ header'[m][v].preds \subseteq vertices'[m]
      BY DEF Closed
    <2>1. CASE m # n
      BY <2>1, <1>4 DEF DagInv, Closed, Added
    <2>2. CASE m = n
      <3>1. Genesis \in vertices'[n] /\ tracked'[n] = Added(n)' /\ tips'[n] \subseteq Added(n)'
        BY <1>1, <1>5 DEF DagInv, Closed, Added
      <3>2. ASSUME NEW v \in Added(n)'
            PROVE  header'[n][v] \in sent' /\ header'[n][v].id = v /\ header'[n][v].preds \subseteq vertices'[n]
        <4>1. CASE v = i
          BY <4>1, <1>1, <1>5, <1>c
        <4>2. CASE v # i
          BY <4>2, <1>5 DEF DagInv, Closed, Added
        <4> QED BY <4>1, <4>2
      <3> QED BY <2>2, <3>1, <3>2
    <2> QED BY <2>1, <2>2
  <1>7. Rounds'
    <2> SUFFICES ASSUME NEW m \in Honest, NEW v \in Added(m)'
                 PROVE  rnd'[m][v] \in calculateRound(m, header[m][v].preds)'
      BY DEF Rounds
    <2>1. CASE m # n
      BY <2>1, <1>4 DEF DagInv, Rounds, Added, calculateRound
    <2>2. CASE m = n /\ v = i
      BY <2>2, <1>1, <1>5, <1>a DEF calculateRound
    <2>3. CASE m = n /\ v # i
      <3>1. v \in Added(n) /\ header'[n][v] = header[n][v] /\ header[n][v].preds \subseteq vertices[n]
        BY <2>3, <1>5 DEF DagInv, Closed, Added
      <3>2. rnd[n][v] \in calculateRound(n, header[n][v].preds)
        BY <3>1 DEF DagInv, Rounds
      <3> QED BY <3>1, <3>2, <2>3, <1>5 DEF calculateRound, Added
    <2> QED BY <2>1, <2>2, <2>3
  <1>8. NoFork'
    <2> SUFFICES ASSUME NEW m \in Honest, NEW v \in Added(m)', NEW w \in Added(m)',
                        header'[m][v].author = header'[m][w].author, rnd'[m][v] = rnd'[m][w]
                 PROVE  v = w
      BY DEF NoFork
    <2>1. CASE m # n
      BY <2>1, <1>4 DEF DagInv, NoFork, Added
    <2>2. CASE m = n
      <3>1. \A u \in Added(n)' : u # i => u \in Added(n) /\ header'[n][u] = header[n][u] /\ rnd'[n][u] = rnd[n][u]
        BY <1>5 DEF Added
      <3>2. CASE v = i /\ w # i
        BY <2>2, <3>1, <3>2, <1>5, <1>b
      <3>3. CASE v # i /\ w = i
        BY <2>2, <3>1, <3>3, <1>5, <1>b
      <3>4. CASE v # i /\ w # i
        BY <2>2, <3>1, <3>4 DEF DagInv, NoFork
      <3> QED BY <3>2, <3>3, <3>4
    <2> QED BY <2>1, <2>2
  <1>9. TipsCover'
    <2> SUFFICES ASSUME NEW m \in Honest, NEW v \in Added(m)'
                 PROVE  \E t \in tips'[m] : rnd'[m][v] <= rnd'[m][t]
      BY DEF TipsCover
    <2>1. CASE m # n
      BY <2>1, <1>4 DEF DagInv, TipsCover, Added
    <2>2. i \in tips'[n] /\ rnd'[n][i] = r
      BY <1>1, <1>5
    <2>3. CASE m = n /\ v = i
      BY <2>2, <2>3, <1>1
    <2>4. CASE m = n /\ v # i
      <3>1. v \in Added(n) /\ rnd'[n][v] = rnd[n][v]
        BY <2>4, <1>5 DEF Added
      <3>2. PICK t \in tips[n] : rnd[n][v] <= rnd[n][t]
        BY <3>1 DEF DagInv, TipsCover
      <3>3. t \in vertices[n] /\ rnd'[n][t] = rnd[n][t] /\ rnd[n][t] \in Nat /\ rnd[n][v] \in Nat
        BY <1>5, <3>1 DEF DagInv, Closed, Added, TypeOK
      <3>4. CASE t \in x.preds
        BY <3>1, <3>2, <3>3, <3>4, <2>2, <2>4, <1>1
      <3>5. CASE t \notin x.preds
        BY <3>1, <3>2, <3>3, <3>5, <2>4, <1>5
      <3> QED BY <3>4, <3>5
    <2> QED BY <2>1, <2>3, <2>4
  <1>10. DagGrows
    BY <1>4, <1>5 DEF DagGrows
  <1> QED BY <1>6, <1>7, <1>8, <1>9, <1>10 DEF DagInv

-----------------------------------------------------------------------------
(* Clean vertices. *)

\* A clean vertex and what it references are clean; identifiers of clean
\* vertices were sent once.
LEMMA CleanPreds ==
    ASSUME NEW n \in Honest, NEW v \in Added(n), Clean(n, v)
    PROVE  v \notin doubled /\ \A p \in header[n][v].preds : Clean(n, p)
  <1>1. PICK S \in SUBSET vertices[n] :
          v \in S /\ \A w \in S : w \notin doubled /\ predsOf(n, w) \subseteq S
    BY DEF Clean
  <1>2. header[n][v].preds \subseteq S
    BY <1>1 DEF predsOf, Added
  <1> QED BY <1>1, <1>2 DEF Clean

\* What is clean after a step was clean before it: identifiers only become
\* doubled, and an old vertex rests on old vertices.
LEMMA CleanBack ==
    ASSUME Closed, DagGrows, NEW n \in Honest, NEW v \in vertices[n], Clean(n, v)'
    PROVE  Clean(n, v)
  <1>1. PICK S \in SUBSET vertices'[n] :
          v \in S /\ \A w \in S : w \notin doubled' /\ predsOf(n, w)' \subseteq S
    BY DEF Clean
  <1>2. doubled \subseteq doubled'
    BY DEF doubled, DagGrows
  <1> DEFINE T == S \cap vertices[n]
  <1>3. ASSUME NEW w \in T PROVE w \notin doubled /\ predsOf(n, w) \subseteq T
    <2>1. w \in S /\ w \in vertices[n] /\ header'[n][w] = header[n][w]
      BY DEF DagGrows
    <2>2. predsOf(n, w) \subseteq vertices[n]
      BY <2>1 DEF predsOf, Closed, Added
    <2>3. predsOf(n, w)' = predsOf(n, w)
      BY <2>1 DEF predsOf
    <2> QED BY <1>1, <1>2, <2>1, <2>2, <2>3
  <1>4. T \in SUBSET vertices[n] /\ v \in T
    BY <1>1
  <1> QED BY <1>3, <1>4 DEF Clean

\* A header of a that rests on something sent in two versions.
Blamed(a) == \E v \in Added(a) : header[a][v].author = a /\ ~ Clean(a, v)

LEMMA BlamedStays ==
    ASSUME Closed, DagGrows, NEW a \in Honest, Blamed(a)
    PROVE  Blamed(a)'
  <1>1. PICK v \in Added(a) : header[a][v].author = a /\ ~ Clean(a, v)
    BY DEF Blamed
  <1>2. v \in Added(a)' /\ header'[a][v] = header[a][v] /\ v \in vertices[a]
    BY DEF Added, DagGrows
  <1>3. ~ Clean(a, v)'
    BY <1>1, <1>2, CleanBack
  <1> QED BY <1>1, <1>2, <1>3 DEF Blamed

LEMMA AccusedOnly ==
    HonestNeverAccused <=>
      \A m, a \in Honest : a \in byzantine[m] => (a = m /\ a \in raced) \/ Blamed(a)
  BY DEF HonestNeverAccused, Blamed, Added

\* Nobody new is accused.
LEMMA KeepBlame ==
    ASSUME Closed, HonestNeverAccused, DagGrows, raced \subseteq raced', UNCHANGED byzantine
    PROVE  HonestNeverAccused'
  <1>1. ASSUME NEW m \in Honest, NEW a \in Honest, a \in byzantine'[m]
        PROVE  (a = m /\ a \in raced') \/ Blamed(a)'
    <2>1. (a = m /\ a \in raced) \/ Blamed(a)
      BY <1>1, AccusedOnly
    <2> QED BY <2>1, BlamedStays
  <1>2. HonestNeverAccused' <=>
          \A m, a \in Honest : a \in byzantine'[m] => (a = m /\ a \in raced') \/ Blamed(a)'
    BY DEF HonestNeverAccused, Blamed, Added
  <1> QED BY <1>1, <1>2

\* The author of an equivocation is accused.
LEMMA AddBlame ==
    ASSUME TypeOK, Closed, HonestNeverAccused, DagGrows, raced \subseteq raced',
           NEW n \in Honest, NEW a,
           byzantine' = [byzantine EXCEPT ![n] = @ \cup {a}],
           a \in Honest => (a = n /\ a \in raced) \/ Blamed(a)
    PROVE  HonestNeverAccused'
  <1>1. ASSUME NEW m \in Honest, NEW b \in Honest, b \in byzantine'[m]
        PROVE  (b = m /\ b \in raced') \/ Blamed(b)'
    <2>1. b \in byzantine[m] \/ (m = n /\ b = a)
      BY <1>1 DEF TypeOK
    <2>2. (b = m /\ b \in raced) \/ Blamed(b)
      BY <2>1, AccusedOnly
    <2> QED BY <2>2, BlamedStays
  <1>2. HonestNeverAccused' <=>
          \A m, b \in Honest : b \in byzantine'[m] => (b = m /\ b \in raced') \/ Blamed(b)'
    BY DEF HonestNeverAccused, Blamed, Added
  <1> QED BY <1>1, <1>2

\* Rounds go on agreeing when none changes.
LEMMA KeepAgreement ==
    ASSUME Closed, RoundAgreement, DagGrows, UNCHANGED <<vertices, rnd>>
    PROVE  RoundAgreement'
  <1> SUFFICES ASSUME NEW m \in Honest, NEW n \in Honest, NEW v \in vertices[m] \cap vertices[n],
                      Clean(m, v)'
               PROVE  rnd[m][v] = rnd[n][v]
    BY DEF RoundAgreement
  <1>1. Clean(m, v)
    BY CleanBack
  <1> QED BY <1>1 DEF RoundAgreement

\* Rounds go on agreeing when a header is inserted: on a clean vertex both
\* miners hold the same header, and by induction the same rounds below it.
LEMMA InsertAgreement ==
    ASSUME TypeOK, TypeOK', DagInv, DagInv', RoundAgreement, DagGrows,
           NEW n \in Honest, NEW x, NEW r, Inserts(n, x, r)
    PROVE  RoundAgreement'
  <1> DEFINE i == x.id
  <1>1. /\ i \in Ids /\ i # Genesis /\ x.preds \in SUBSET Vertices
        /\ vertices'[n] = vertices[n] \cup {i}
        /\ rnd'[n][i] = r /\ header'[n][i] = x
        /\ \A m \in Honest : m # n => vertices'[m] = vertices[m] /\ rnd'[m] = rnd[m]
      /\ i \notin vertices[n] /\ x.preds \subseteq vertices[n] /\ r \in calculateRound(n, x.preds)
    BY InsertEffect DEF Inserts
  <1>2. Closed /\ Closed' /\ Rounds'
    BY DEF DagInv
  <1> HIDE DEF i
  <1>3. \A m \in Honest : vertices[m] \subseteq vertices'[m] /\ \A v \in vertices[m] : rnd'[m][v] = rnd[m][v]
    BY DEF DagGrows
  <1>4. ASSUME NEW m \in Honest, m # n, i \in vertices[m], Clean(m, i)' \/ Clean(n, i)'
        PROVE  rnd[m][i] = r
    <2>1. i \in Added(m)' /\ i \in Added(n)' /\ i \in Added(m)
      BY <1>1, <1>3, <1>4 DEF Added
    <2>2. i \notin doubled'
      <3>1. CASE Clean(m, i)'
        BY <2>1, <3>1 DEF Clean
      <3>2. CASE Clean(n, i)'
        BY <2>1, <3>2 DEF Clean
      <3> QED BY <1>4, <3>1, <3>2
    <2>3. header'[m][i] = x
      <3>1. header'[m][i] = header'[n][i]
        <4>1. /\ header'[m][i] \in sent' /\ header'[m][i].id = i
              /\ header'[n][i] \in sent' /\ header'[n][i].id = i
          BY <1>2, <2>1 DEF Closed
        <4> QED BY <1>1, <2>2, <4>1 DEF doubled
      <3> QED BY <1>1, <3>1
    <2>4. header[m][i] = x
      BY <1>4, <2>3 DEF DagGrows
    <2>5. x.preds \subseteq vertices[m] /\ rnd[m][i] \in calculateRound(m, x.preds)
      BY <2>1, <2>4 DEF DagInv, Closed, Rounds
    <2>6. ASSUME NEW p \in x.preds PROVE rnd[m][p] = rnd[n][p]
      <3>0. p \in vertices[m] /\ p \in vertices[n]
        BY <1>1, <2>5
      <3>1. CASE Clean(m, i)'
        <4>1. Clean(m, i)
          BY <1>2, <1>4, <3>1, CleanBack
        <4>2. Clean(m, p)
          BY <2>1, <2>4, <4>1, CleanPreds
        <4> QED BY <3>0, <4>2 DEF RoundAgreement
      <3>2. CASE Clean(n, i)'
        <4>1. PICK S \in SUBSET vertices'[n] :
                i \in S /\ \A w \in S : w \notin doubled' /\ predsOf(n, w)' \subseteq S
          BY <3>2 DEF Clean
        <4>2. p \in S
          BY <1>1, <4>1 DEF predsOf
        <4>3. Clean(n, p)'
          BY <4>1, <4>2 DEF Clean
        <4>4. Clean(n, p)
          BY <1>2, <3>0, <4>3, CleanBack
        <4> QED BY <3>0, <4>4 DEF RoundAgreement
      <3> QED BY <1>4, <3>1, <3>2
    <2> QED BY <1>1, <2>5, <2>6, RoundUnique
  <1> SUFFICES ASSUME NEW m \in Honest, NEW o \in Honest, NEW v \in vertices'[m] \cap vertices'[o],
                      Clean(m, v)'
               PROVE  rnd'[m][v] = rnd'[o][v]
    BY DEF RoundAgreement
  <1>5. CASE v \in vertices[m] /\ v \in vertices[o]
    <2>1. Clean(m, v)
      BY <1>2, <1>5, CleanBack
    <2> QED BY <1>3, <1>5, <2>1 DEF RoundAgreement
  <1>6. CASE v \notin vertices[m]
    <2>1. m = n /\ v = i
      BY <1>1, <1>6
    <2>2. CASE o = n
      BY <2>1, <2>2
    <2>3. CASE o # n
      <3>1. i \in vertices[o]
        BY <1>1, <2>1, <2>3
      <3>2. rnd[o][i] = r
        BY <1>4, <2>1, <2>3, <3>1
      <3> QED BY <1>1, <1>3, <2>1, <3>1, <3>2
    <2> QED BY <2>2, <2>3
  <1>7. CASE v \notin vertices[o]
    <2>1. o = n /\ v = i
      BY <1>1, <1>7
    <2>2. CASE m = n
      BY <2>1, <2>2
    <2>3. CASE m # n
      <3>1. i \in vertices[m]
        BY <1>1, <2>1, <2>3
      <3>2. rnd[m][i] = r
        BY <1>4, <2>1, <2>3, <3>1
      <3> QED BY <1>1, <1>3, <2>1, <3>1, <3>2
    <2> QED BY <2>2, <2>3
  <1> QED BY <1>5, <1>6, <1>7

-----------------------------------------------------------------------------
(* One lemma per action. *)

\* Reading the tips: what was read covers the proposer's vertices because the
\* tips do.
LEMMA ProposeGetTipsInv ==
    ASSUME Inv, NEW n \in Honest, NEW c \in Callers, NEW i \in Ids, ProposeGetTips(n, c, i)
    PROVE  Inv'
  <1> DEFINE x == [id |-> i, author |-> n, preds |-> tips[n]]
  <1>1. /\ i \notin drawn /\ drawn' = drawn \cup {i}
        /\ outbox' = [outbox EXCEPT ![n][c] = x] /\ outbox[n][c] = NoHeader
        /\ raced' = IF \E d \in Callers : outbox[n][d] # NoHeader THEN raced \cup {n} ELSE raced
        /\ sent' = sent /\ inbox' = inbox
    BY DEF ProposeGetTips
  <1>2. /\ vertices' = vertices /\ header' = header /\ rnd' = rnd /\ tips' = tips
        /\ tracked' = tracked /\ byzantine' = byzantine /\ delivered' = delivered
        /\ sequence' = sequence /\ height' = height
    BY DEF ProposeGetTips, dagVars
  <1>3. x \in Headers /\ x.id = i /\ x.author = n /\ x.preds = tips[n] /\ x # NoHeader
    BY BlocklaceAssumption DEF Inv, TypeOK, Headers, Nodes, Vertices
  <1> HIDE DEF x
  <1>4. TypeOK'
    <2>1. outbox' \in [Honest -> [Callers -> Headers \cup {NoHeader}]]
      BY <1>1, <1>3 DEF Inv, TypeOK
    <2>2. drawn' \subseteq Ids /\ raced' \subseteq Honest /\ raced \subseteq raced'
      BY <1>1 DEF Inv, TypeOK
    <2> QED BY <1>1, <1>2, <2>1, <2>2 DEF Inv, TypeOK
  <1>5. DagInv' /\ DagGrows
    BY <1>1, <1>2, KeepDag DEF Inv, DagGrows
  <1>6. /\ outbox'[n][c] = x
        /\ \A m \in Honest, d \in Callers : ~ (m = n /\ d = c) => outbox'[m][d] = outbox[m][d]
    BY <1>1 DEF Inv, TypeOK
  <1>7. tips[n] \subseteq Added(n) /\ Added(n)' = Added(n)
    BY <1>2 DEF Inv, DagInv, Closed, Added
  <1>8. OutboxFresh'
    <2>1. \A y \in sent' : y.id \in drawn'
      BY <1>1 DEF Inv, OutboxFresh
    <2> SUFFICES ASSUME NEW m \in Honest, NEW d \in Callers, outbox'[m][d] # NoHeader
                 PROVE  /\ outbox'[m][d].author = m
                        /\ outbox'[m][d].preds \subseteq Added(m)'
                        /\ outbox'[m][d].id \in drawn'
                        /\ \A y \in sent' : y.id # outbox'[m][d].id
                        /\ \A o \in Honest, e \in Callers :
                             outbox'[o][e] # NoHeader /\ outbox'[o][e].id = outbox'[m][d].id => o = m /\ e = d
      BY <2>1 DEF OutboxFresh
    <2>2. CASE m = n /\ d = c
      <3>1. \A y \in sent' : y.id # i
        BY <1>1 DEF Inv, OutboxFresh
      <3>2. \A o \in Honest, e \in Callers :
              outbox'[o][e] # NoHeader /\ outbox'[o][e].id = i => o = m /\ e = d
        BY <1>1, <1>6, <2>2 DEF Inv, OutboxFresh
      <3> QED BY <1>1, <1>3, <1>6, <1>7, <2>2, <3>1, <3>2
    <2>3. CASE ~ (m = n /\ d = c)
      <3>1. outbox'[m][d] = outbox[m][d] /\ Added(m)' = Added(m)
        BY <1>2, <1>6, <2>3 DEF Added
      <3>2. \A o \in Honest, e \in Callers :
              outbox'[o][e] # NoHeader /\ outbox'[o][e].id = outbox'[m][d].id => o = m /\ e = d
        <4>1. outbox[m][d].id # i
          BY <1>1, <3>1 DEF Inv, OutboxFresh
        <4> QED BY <1>3, <1>6, <3>1, <4>1 DEF Inv, OutboxFresh
      <3> QED BY <1>1, <3>1, <3>2 DEF Inv, OutboxFresh
    <2> QED BY <2>2, <2>3
  <1>9. SnapshotCovers'
    <2> SUFFICES ASSUME NEW m \in Honest, m \notin raced', NEW d \in Callers, outbox'[m][d] # NoHeader
                 PROVE  /\ \A e \in Callers : outbox'[m][e] # NoHeader => e = d
                        /\ \A v \in Added(m)' : header'[m][v].author = m =>
                             \E t \in outbox'[m][d].preds : rnd'[m][v] <= rnd'[m][t]
      BY DEF SnapshotCovers
    <2>0. m \notin raced
      BY <1>1
    <2>1. CASE m = n
      <3>1. \A e \in Callers : outbox[n][e] = NoHeader
        BY <1>1, <2>1
      <3>2. d = c /\ outbox'[m][d] = x
        BY <1>6, <2>1, <3>1
      <3>3. \A e \in Callers : outbox'[m][e] # NoHeader => e = d
        BY <1>6, <2>1, <3>1, <3>2
      <3>4. \A v \in Added(m) : \E t \in tips[m] : rnd[m][v] <= rnd[m][t]
        BY DEF Inv, DagInv, TipsCover
      <3> QED BY <1>2, <1>3, <1>7, <2>1, <3>2, <3>3, <3>4
    <2>2. CASE m # n
      BY <1>2, <1>6, <2>0, <2>2 DEF Inv, SnapshotCovers, Added
    <2> QED BY <2>1, <2>2
  <1>10. InboxKnown' /\ OwnHeaders'
    BY <1>1, <1>2 DEF Inv, InboxKnown, OwnHeaders
  <1>11. RoundAgreement' /\ HonestNeverAccused'
    BY <1>1, <1>2, <1>5, KeepAgreement, KeepBlame DEF Inv, DagInv
  <1> QED BY <1>4, <1>5, <1>8, <1>9, <1>10, <1>11 DEF Inv

\* The types of the DAG variables after an insertion.
LEMMA InsertType ==
    ASSUME TypeOK, NEW n \in Honest, NEW x \in Headers, NEW r \in Nat, insertVertex(n, x, r)
    PROVE  /\ vertices' \in [Honest -> SUBSET Vertices]
           /\ header' \in [Honest -> [Vertices -> Headers \cup {NoHeader}]]
           /\ rnd' \in [Honest -> [Vertices -> Nat]]
           /\ tips' \in [Honest -> SUBSET Ids]
           /\ tracked' \in [Honest -> SUBSET Ids]
           /\ byzantine' \in [Honest -> SUBSET Nodes]
           /\ delivered' \in [Honest -> SUBSET Vertices]
           /\ sequence' \in [Honest -> Seq(Vertices)]
           /\ height' \in [Honest -> Nat]
  <1> DEFINE i == x.id
  <1>0. i \in Ids /\ i \in Vertices
    BY DEF Headers, Vertices
  <1>1. /\ vertices' \in [Honest -> SUBSET Vertices]
        /\ tips' \in [Honest -> SUBSET Ids]
        /\ tracked' \in [Honest -> SUBSET Ids]
        /\ byzantine' \in [Honest -> SUBSET Nodes]
    BY <1>0 DEF TypeOK, insertVertex, updateTips, Vertices
  <1>2. rnd' \in [Honest -> [Vertices -> Nat]] /\ header' \in [Honest -> [Vertices -> Headers \cup {NoHeader}]]
    BY <1>0 DEF TypeOK, insertVertex
  <1>3. /\ delivered' \in [Honest -> SUBSET Vertices]
        /\ sequence' \in [Honest -> Seq(Vertices)]
        /\ height' \in [Honest -> Nat]
    <2>2. CASE x.preds \subseteq delivered[n]
      <3>1. Append(sequence[n], i) \in Seq(Vertices)
        BY <1>0 DEF TypeOK
      <3>2. (IF r > height[n] THEN r ELSE height[n]) \in Nat
        BY DEF TypeOK
      <3>3. /\ delivered' = [delivered EXCEPT ![n] = @ \cup {i}]
            /\ sequence' = [sequence EXCEPT ![n] = Append(@, i)]
            /\ height' = [height EXCEPT ![n] = IF r > @ THEN r ELSE @]
        BY <2>2 DEF insertVertex, tryDeliver
      <3> HIDE DEF i
      <3>4. delivered' \in [Honest -> SUBSET Vertices]
        BY <1>0, <3>3 DEF TypeOK
      <3>5. sequence' \in [Honest -> Seq(Vertices)]
        BY <3>1, <3>3 DEF TypeOK
      <3>6. height' \in [Honest -> Nat]
        BY <3>2, <3>3 DEF TypeOK
      <3> QED BY <3>4, <3>5, <3>6
    <2>3. CASE ~ x.preds \subseteq delivered[n]
      BY <2>3 DEF TypeOK, insertVertex, tryDeliver
    <2> QED BY <2>2, <2>3
  <1> QED BY <1>1, <1>2, <1>3

\* What AddHeader does: nothing, accuse the author, or insert the header.
LEMMA AddHeaderCases ==
    ASSUME NEW n \in Honest, NEW x \in Headers, x \in sent' \/ x.id \notin vertices'[n], TypeOK,
           AddHeader(n, x)
    PROVE  \/ ignoreHeader(n, x)
           \/ /\ x.id \notin vertices[n] /\ x.preds \subseteq vertices[n]
              /\ handleEquivocation(n, x)
              /\ \E r \in calculateRound(n, x.preds) : detectEquivocation(n, x, r)
           \/ \E r \in Nat : Inserts(n, x, r)
  <1>1. SUFFICES ASSUME x.id \notin vertices[n], x.preds \subseteq vertices[n],
                        NEW r \in calculateRound(n, x.preds), ~ detectEquivocation(n, x, r),
                        insertVertex(n, x, r)
                 PROVE  \E q \in Nat : Inserts(n, x, q)
    BY DEF AddHeader
  <1>2. vertices' = [vertices EXCEPT ![n] = @ \cup {x.id}]
    BY <1>1 DEF insertVertex
  <1>3. x.id \in vertices'[n]
    BY <1>2 DEF TypeOK
  <1>4. x.preds \in SUBSET Vertices
    BY DEF Headers
  <1>5. r \in Nat
    BY <1>4, RoundAbove
  <1> QED BY <1>1, <1>3, <1>5 DEF Inserts

\* The only proposal of a miner under way is never an equivocation: its round
\* is above that of every vertex of the proposer.
LEMMA ProposalNotEquivocation ==
    ASSUME Inv, NEW n \in Honest \ raced, NEW c \in Callers, outbox[n][c] # NoHeader,
           NEW r \in calculateRound(n, outbox[n][c].preds)
    PROVE  ~ detectEquivocation(n, outbox[n][c], r)
  <1> DEFINE P == outbox[n][c].preds
  <1>1. P \in SUBSET Vertices /\ outbox[n][c].author = n
    BY DEF Inv, TypeOK, OutboxFresh, Headers
  <1>2. r \in Nat /\ \A p \in P : r > rnd[n][p]
    BY <1>1, RoundAbove DEF Inv
  <1>3. SUFFICES ASSUME NEW w \in tracked[n], header[n][w].author = n, rnd[n][w] = r
                 PROVE  FALSE
    BY <1>1 DEF detectEquivocation
  <1>4. PICK t \in P : rnd[n][w] <= rnd[n][t]
    BY <1>3 DEF Inv, DagInv, Closed, SnapshotCovers
  <1>5. rnd[n][t] \in Nat
    BY <1>1 DEF Inv, TypeOK
  <1> QED BY <1>2, <1>3, <1>4, <1>5

\* A received header of an honest author is an equivocation only if the
\* author is to blame: in the author's own DAG a clean header has the round it
\* gets here, and no other header of the author has.
LEMMA HonestHeaderNotEquivocation ==
    ASSUME Inv, NEW n \in Honest, NEW x \in sent, x.author \in Honest,
           x.preds \subseteq vertices[n],
           NEW r \in calculateRound(n, x.preds), detectEquivocation(n, x, r)
    PROVE  Blamed(x.author)
  <1> DEFINE a == x.author
             i == x.id
  <1>0. x \in Headers /\ x.preds \in SUBSET Vertices /\ i \in Ids
    BY DEF Inv, TypeOK, Headers
  <1>1. PICK w \in tracked[n] : header[n][w].author = a /\ rnd[n][w] = r /\ w # i
    BY DEF detectEquivocation
  <1>2. w \in Added(n) /\ header[n][w] \in sent /\ header[n][w].id = w
    BY DEF Inv, DagInv, Closed
  <1>3. w \in Added(a) /\ header[a][w] = header[n][w]
    BY <1>1, <1>2 DEF Inv, OwnHeaders, Added
  <1>4. i \in Added(a) /\ header[a][i] = x
    BY <1>0, BlocklaceAssumption DEF Inv, OwnHeaders, Added, Vertices
  <1> SUFFICES ASSUME Clean(a, i), Clean(a, w) PROVE FALSE
    BY <1>1, <1>3, <1>4 DEF Blamed
  <1> HIDE DEF a, i
  <1>a. a \in Honest
    BY DEF a
  <1>5. \A p \in x.preds : Clean(a, p)
    BY <1>a, <1>4, CleanPreds
  <1>6. x.preds \subseteq vertices[a] /\ rnd[a][i] \in calculateRound(a, x.preds)
    BY <1>a, <1>4 DEF Inv, DagInv, Closed, Rounds
  <1>7. \A p \in x.preds : rnd[a][p] = rnd[n][p]
    BY <1>a, <1>5, <1>6 DEF Inv, RoundAgreement
  <1>8. rnd[a][i] = r
    BY <1>a, <1>0, <1>6, <1>7, RoundUnique DEF Inv
  <1>9. rnd[a][w] = r
    BY <1>a, <1>1, <1>2, <1>3 DEF Inv, RoundAgreement, Added
  <1>10. header[a][i].author = header[a][w].author
    BY <1>1, <1>3, <1>4 DEF a
  <1> QED BY <1>a, <1>1, <1>3, <1>4, <1>8, <1>9, <1>10 DEF Inv, DagInv, NoFork

\* A proposal is added to the proposer's DAG and broadcast, or dropped.
LEMMA ProposeAddHeaderInv ==
    ASSUME Inv, NEW n \in Honest, NEW c \in Callers, ProposeAddHeader(n, c)
    PROVE  Inv'
  <1> DEFINE x == outbox[n][c]
  <1>1. /\ x # NoHeader /\ AddHeader(n, x)
        /\ sent' = IF x.id \in vertices'[n] THEN sent \cup {x} ELSE sent
        /\ outbox' = [outbox EXCEPT ![n][c] = NoHeader]
        /\ drawn' = drawn /\ inbox' = inbox /\ raced' = raced
    BY DEF ProposeAddHeader
  <1>2. /\ x \in Headers /\ x.author = n /\ x.preds \subseteq Added(n) /\ x.id \in drawn
        /\ \A y \in sent : y.id # x.id
        /\ \A m \in Honest, d \in Callers : outbox[m][d] # NoHeader /\ outbox[m][d].id = x.id => m = n /\ d = c
    BY <1>1 DEF Inv, TypeOK, OutboxFresh
  <1>3. x.id \notin vertices[n] /\ x.preds \subseteq vertices[n] /\ x.id \in Ids /\ x.preds \in SUBSET Vertices
    BY <1>2, BlocklaceAssumption DEF Inv, DagInv, Closed, Added, Headers, Vertices
  <1>p. ASSUME NEW r \in calculateRound(n, x.preds), detectEquivocation(n, x, r) PROVE n \in raced
    BY <1>1, <1>p, ProposalNotEquivocation
  <1> HIDE DEF x
  <1>4. /\ outbox' \in [Honest -> [Callers -> Headers \cup {NoHeader}]]
        /\ outbox'[n][c] = NoHeader
        /\ \A m \in Honest, d \in Callers : ~ (m = n /\ d = c) => outbox'[m][d] = outbox[m][d]
    BY <1>1 DEF Inv, TypeOK
  <1>5. sent \subseteq sent' /\ sent' \subseteq sent \cup {x} /\ sent' \subseteq Headers
    BY <1>1, <1>2 DEF Inv, TypeOK
  <1>6. x \in sent' \/ x.id \notin vertices'[n]
    BY <1>1
  <1>7. \/ ignoreHeader(n, x)
        \/ /\ handleEquivocation(n, x)
           /\ \E r \in calculateRound(n, x.preds) : detectEquivocation(n, x, r)
        \/ \E r \in Nat : Inserts(n, x, r)
    BY <1>1, <1>2, <1>6, AddHeaderCases DEF Inv
  <1>8. ~ ignoreHeader(n, x)
    BY <1>3 DEF ignoreHeader
  <1>9. InboxKnown'
    BY <1>1, <1>5 DEF Inv, InboxKnown
  <1>10. ASSUME DagGrows PROVE OutboxFresh'
    <2>1. \A y \in sent' : y.id \in drawn'
      BY <1>1, <1>2, <1>5 DEF Inv, OutboxFresh
    <2> SUFFICES ASSUME NEW m \in Honest, NEW d \in Callers, outbox'[m][d] # NoHeader
                 PROVE  /\ outbox'[m][d].author = m
                        /\ outbox'[m][d].preds \subseteq Added(m)'
                        /\ outbox'[m][d].id \in drawn'
                        /\ \A y \in sent' : y.id # outbox'[m][d].id
                        /\ \A o \in Honest, e \in Callers :
                             outbox'[o][e] # NoHeader /\ outbox'[o][e].id = outbox'[m][d].id => o = m /\ e = d
      BY <2>1 DEF OutboxFresh
    <2>2. ~ (m = n /\ d = c) /\ outbox'[m][d] = outbox[m][d]
      BY <1>4
    <2>3. \A o \in Honest, e \in Callers : outbox'[o][e] # NoHeader => outbox'[o][e] = outbox[o][e]
      BY <1>4
    <2>4. Added(m) \subseteq Added(m)'
      BY <1>10 DEF DagGrows, Added
    <2>5. \A y \in sent' : y.id # outbox'[m][d].id
      BY <1>2, <1>5, <2>2 DEF Inv, OutboxFresh
    <2>6. \A o \in Honest, e \in Callers :
            outbox'[o][e] # NoHeader /\ outbox'[o][e].id = outbox'[m][d].id => o = m /\ e = d
      BY <2>2, <2>3 DEF Inv, OutboxFresh
    <2> QED BY <1>1, <2>2, <2>4, <2>5, <2>6 DEF Inv, OutboxFresh
  <1>11. ASSUME handleEquivocation(n, x), NEW r \in calculateRound(n, x.preds), detectEquivocation(n, x, r)
         PROVE  Inv'
    <2>1. byzantine' = [byzantine EXCEPT ![n] = @ \cup {n}]
          /\ vertices' = vertices /\ header' = header /\ rnd' = rnd /\ tips' = tips
          /\ tracked' = tracked /\ delivered' = delivered /\ sequence' = sequence /\ height' = height
      BY <1>2, <1>11 DEF handleEquivocation
    <2>2. sent' = sent
      BY <1>1, <1>3, <2>1
    <2>3. TypeOK'
      <3>1. byzantine' \in [Honest -> SUBSET Nodes]
        BY <2>1 DEF Inv, TypeOK, Nodes
      <3> QED BY <1>1, <1>4, <2>1, <2>2, <3>1 DEF Inv, TypeOK
    <2>4. DagInv' /\ DagGrows
      BY <2>1, <2>2, KeepDag DEF Inv, DagGrows
    <2>5. OwnHeaders' /\ RoundAgreement'
      BY <2>1, <2>2, <2>4, KeepAgreement DEF Inv, DagInv, OwnHeaders
    <2>6. HonestNeverAccused'
      BY <1>1, <1>11, <1>p, <2>1, <2>4, AddBlame DEF Inv, DagInv
    <2>7. SnapshotCovers'
      <3> SUFFICES ASSUME NEW m \in Honest, m \notin raced, NEW d \in Callers, outbox'[m][d] # NoHeader
                   PROVE  /\ \A e \in Callers : outbox'[m][e] # NoHeader => e = d
                          /\ \A v \in Added(m)' : header'[m][v].author = m =>
                               \E t \in outbox'[m][d].preds : rnd'[m][v] <= rnd'[m][t]
        BY <1>1 DEF SnapshotCovers
      <3>1. \A e \in Callers : outbox'[m][e] # NoHeader => outbox'[m][e] = outbox[m][e]
        BY <1>4
      <3> QED BY <2>1, <3>1 DEF Inv, SnapshotCovers, Added
    <2> QED BY <1>9, <1>10, <2>3, <2>4, <2>5, <2>6, <2>7 DEF Inv
  <1>12. ASSUME NEW r \in Nat, Inserts(n, x, r) PROVE Inv'
    <2>1. DagInv' /\ DagGrows
      BY <1>5, <1>12, InsertDag DEF Inv
    <2>2. TypeOK'
      BY <1>1, <1>2, <1>4, <1>5, <1>12, InsertType DEF Inv, TypeOK, Inserts
    <2>3. RoundAgreement'
      BY <1>12, <2>1, <2>2, InsertAgreement DEF Inv
    <2>4. /\ vertices'[n] = vertices[n] \cup {x.id} /\ header'[n][x.id] = x /\ byzantine' = byzantine
          /\ \A m \in Honest : m # n => vertices'[m] = vertices[m] /\ header'[m] = header[m] /\ rnd'[m] = rnd[m]
      BY <1>12, InsertEffect DEF Inv
    <2>5. HonestNeverAccused'
      BY <1>1, <2>1, <2>4, KeepBlame DEF Inv, DagInv
    <2>6. OwnHeaders'
      <3> SUFFICES ASSUME NEW y \in sent', y.author \in Honest
                   PROVE  y.id \in vertices'[y.author] /\ header'[y.author][y.id] = y
        BY DEF OwnHeaders
      <3>1. CASE y = x
        BY <1>2, <2>4, <3>1
      <3>2. CASE y \in sent
        BY <2>1, <3>2 DEF Inv, OwnHeaders, DagGrows
      <3> QED BY <1>5, <3>1, <3>2
    <2>7. SnapshotCovers'
      <3> SUFFICES ASSUME NEW m \in Honest, m \notin raced, NEW d \in Callers, outbox'[m][d] # NoHeader
                   PROVE  /\ \A e \in Callers : outbox'[m][e] # NoHeader => e = d
                          /\ \A v \in Added(m)' : header'[m][v].author = m =>
                               \E t \in outbox'[m][d].preds : rnd'[m][v] <= rnd'[m][t]
        BY <1>1 DEF SnapshotCovers
      <3>1. \A e \in Callers : outbox'[m][e] # NoHeader => outbox'[m][e] = outbox[m][e] /\ ~ (m = n /\ e = c)
        BY <1>4
      <3>2. m # n
        BY <1>1, <3>1 DEF Inv, SnapshotCovers, x
      <3> QED BY <2>4, <3>1, <3>2 DEF Inv, SnapshotCovers, Added
    <2> QED BY <1>9, <1>10, <2>1, <2>2, <2>3, <2>5, <2>6, <2>7 DEF Inv
  <1> QED BY <1>7, <1>8, <1>11, <1>12

\* A handler passing the check changes nothing but its inbox.
LEMMA ReceiveCheckInv ==
    ASSUME Inv, NEW n \in Honest, NEW h \in Handlers, NEW x \in sent, ReceiveCheck(n, h, x)
    PROVE  Inv'
  <1> USE DEF ReceiveCheck, dagVars
  <1>1. TypeOK' /\ InboxKnown'
    BY DEF Inv, TypeOK, InboxKnown
  <1>2. DagInv' /\ DagGrows
    BY KeepDag DEF Inv, DagGrows
  <1>3. OwnHeaders' /\ SnapshotCovers' /\ OutboxFresh'
    BY DEF Inv, OwnHeaders, SnapshotCovers, OutboxFresh, Added
  <1>4. RoundAgreement' /\ HonestNeverAccused'
    BY <1>2, KeepAgreement, KeepBlame DEF Inv, DagInv
  <1> QED BY <1>1, <1>2, <1>3, <1>4 DEF Inv

\* Adding a received header.
LEMMA ReceiveAddInv ==
    ASSUME Inv, NEW n \in Honest, NEW h \in Handlers, ReceiveAdd(n, h)
    PROVE  Inv'
  <1> DEFINE x == inbox[n][h]
  <1>1. /\ x \in sent /\ x \in Headers /\ AddHeader(n, x)
        /\ sent' = sent /\ drawn' = drawn /\ outbox' = outbox /\ raced' = raced
    BY DEF ReceiveAdd, Inv, InboxKnown, TypeOK
  <1>2. inbox' = [inbox EXCEPT ![n][h] = NoHeader]
    BY DEF ReceiveAdd
  <1>3. inbox' \in [Honest -> [Handlers -> Headers \cup {NoHeader}]] /\ InboxKnown'
    BY <1>1, <1>2 DEF Inv, TypeOK, InboxKnown
  <1> HIDE DEF x
  <1>4. \/ ignoreHeader(n, x)
        \/ /\ x.preds \subseteq vertices[n] /\ handleEquivocation(n, x)
           /\ \E r \in calculateRound(n, x.preds) : detectEquivocation(n, x, r)
        \/ \E r \in Nat : Inserts(n, x, r)
    BY <1>1, AddHeaderCases DEF Inv
  <1>o. ASSUME DagGrows PROVE OutboxFresh'
    <2>1. \A m \in Honest : Added(m) \subseteq Added(m)'
      BY <1>o DEF DagGrows, Added
    <2> QED BY <1>1, <2>1 DEF Inv, OutboxFresh
  <1>5. CASE ignoreHeader(n, x)
    <2>1. UNCHANGED dagVars
      BY <1>5 DEF ignoreHeader
    <2>2. TypeOK' /\ OwnHeaders' /\ SnapshotCovers'
      BY <2>1, <1>1, <1>3 DEF dagVars, Inv, TypeOK, OwnHeaders, SnapshotCovers, Added
    <2>3. DagInv' /\ DagGrows
      BY <2>1, <1>1, KeepDag DEF Inv, dagVars, DagGrows
    <2>4. RoundAgreement' /\ HonestNeverAccused'
      BY <2>1, <2>3, <1>1, KeepAgreement, KeepBlame DEF Inv, DagInv, dagVars
    <2> QED BY <2>2, <2>3, <2>4, <1>3, <1>o DEF Inv
  <1>6. ASSUME x.preds \subseteq vertices[n],
               NEW r \in calculateRound(n, x.preds),
               detectEquivocation(n, x, r), handleEquivocation(n, x)
        PROVE  Inv'
    <2>1. x.author \in Honest => Blamed(x.author)
      BY <1>1, <1>6, HonestHeaderNotEquivocation
    <2>2. byzantine' = [byzantine EXCEPT ![n] = @ \cup {x.author}]
          /\ UNCHANGED <<vertices, header, rnd, tips, tracked, delivered, sequence, height>>
      BY <1>6 DEF handleEquivocation
    <2>3. TypeOK'
      <3>1. byzantine' \in [Honest -> SUBSET Nodes]
        BY <1>1, <2>2 DEF Inv, TypeOK, Headers
      <3> QED BY <1>1, <1>3, <2>2, <3>1 DEF Inv, TypeOK
    <2>4. DagInv' /\ DagGrows
      BY <2>2, <1>1, KeepDag DEF Inv, DagGrows
    <2>5. HonestNeverAccused'
      BY <1>1, <2>1, <2>2, <2>4, AddBlame DEF Inv, DagInv
    <2>6. OwnHeaders' /\ SnapshotCovers' /\ RoundAgreement'
      BY <2>2, <2>4, <1>1, KeepAgreement DEF Inv, DagInv, OwnHeaders, SnapshotCovers, Added
    <2> QED BY <2>3, <2>4, <2>5, <2>6, <1>3, <1>o DEF Inv
  <1>7. ASSUME NEW r \in Nat, Inserts(n, x, r) PROVE Inv'
    <2>1. DagInv' /\ DagGrows
      BY <1>1, <1>7, InsertDag DEF Inv
    <2>2. TypeOK'
      BY <1>1, <1>3, <1>7, InsertType DEF Inv, TypeOK, Inserts
    <2>3. RoundAgreement'
      BY <1>7, <2>1, <2>2, InsertAgreement DEF Inv
    <2>4. /\ vertices'[n] = vertices[n] \cup {x.id} /\ header'[n][x.id] = x /\ byzantine' = byzantine
          /\ \A m \in Honest : m # n => vertices'[m] = vertices[m] /\ header'[m] = header[m] /\ rnd'[m] = rnd[m]
      BY <1>7, InsertEffect DEF Inv
    <2>5. HonestNeverAccused'
      BY <1>1, <2>1, <2>4, KeepBlame DEF Inv, DagInv
    <2>6. OwnHeaders'
      BY <1>1, <2>1 DEF Inv, OwnHeaders, DagGrows
    <2>7. x.author # n
      BY <1>1, <1>7 DEF Inv, OwnHeaders, Inserts
    <2>8. SnapshotCovers'
      <3> SUFFICES ASSUME NEW m \in Honest, m \notin raced, NEW d \in Callers, outbox[m][d] # NoHeader
                   PROVE  /\ \A e \in Callers : outbox[m][e] # NoHeader => e = d
                          /\ \A v \in Added(m)' : header'[m][v].author = m =>
                               \E t \in outbox[m][d].preds : rnd'[m][v] <= rnd'[m][t]
        BY <1>1 DEF SnapshotCovers
      <3>1. /\ \A e \in Callers : outbox[m][e] # NoHeader => e = d
            /\ \A v \in Added(m) : header[m][v].author = m => \E t \in outbox[m][d].preds : rnd[m][v] <= rnd[m][t]
            /\ outbox[m][d].preds \subseteq vertices[m]
        BY DEF Inv, SnapshotCovers, OutboxFresh, Added
      <3>2. \A v \in vertices[m] : rnd'[m][v] = rnd[m][v] /\ header'[m][v] = header[m][v]
        BY <2>1 DEF DagGrows
      <3>3. \A v \in Added(m)' : header'[m][v].author = m => v \in Added(m)
        BY <2>4, <2>7 DEF Added
      <3> QED BY <3>1, <3>2, <3>3 DEF Added
    <2> QED BY <2>1, <2>2, <2>3, <2>5, <2>6, <2>8, <1>3, <1>o DEF Inv
  <1> QED BY <1>4, <1>5, <1>6, <1>7

\* A Byzantine broadcast touches no honest miner's DAG and takes no
\* identifier of a proposal under way.
LEMMA ByzBroadcastInv ==
    ASSUME Inv, NEW x \in Headers, x.author \in Byz, ByzBroadcast(x)
    PROVE  Inv'
  <1>1. /\ x.id \in UsedIds \cup (Ids \ drawn)
        /\ sent' = sent \cup {x} /\ drawn' = drawn \cup {x.id}
        /\ UNCHANGED <<dagVars, outbox, inbox, raced>>
    BY DEF ByzBroadcast
  <1>2. TypeOK'
    BY <1>1 DEF Inv, TypeOK, dagVars, Headers
  <1>3. DagInv' /\ DagGrows
    BY <1>1, KeepDag DEF Inv, dagVars, DagGrows
  <1>4. InboxKnown' /\ OwnHeaders'
    BY <1>1, BlocklaceAssumption DEF Inv, InboxKnown, OwnHeaders, dagVars
  <1>5. OutboxFresh'
    <2>1. \A n \in Honest, c \in Callers : outbox[n][c] # NoHeader => outbox[n][c].id # x.id
      <3>1. CASE x.id \in Ids \ drawn
        BY <3>1 DEF Inv, OutboxFresh
      <3>2. CASE \E y \in sent : x.id = y.id
        BY <3>2 DEF Inv, OutboxFresh
      <3> QED BY <1>1, <3>1, <3>2 DEF UsedIds
    <2> QED BY <1>1, <2>1 DEF Inv, OutboxFresh, Added, dagVars
  <1>6. SnapshotCovers'
    BY <1>1 DEF Inv, SnapshotCovers, Added, dagVars
  <1>7. RoundAgreement' /\ HonestNeverAccused'
    BY <1>1, <1>3, KeepAgreement, KeepBlame DEF Inv, DagInv, dagVars
  <1> QED BY <1>2, <1>3, <1>4, <1>5, <1>6, <1>7 DEF Inv

\* Inv is inductive.
LEMMA NextInv == Inv /\ [Next]_vars => Inv'
  <1> SUFFICES ASSUME Inv, [Next]_vars PROVE Inv'
    OBVIOUS
  <1>1. CASE UNCHANGED vars
    <2>1. TypeOK' /\ InboxKnown' /\ OutboxFresh' /\ OwnHeaders' /\ SnapshotCovers'
      BY <1>1 DEF vars, dagVars, Inv, TypeOK, InboxKnown, OutboxFresh, OwnHeaders, SnapshotCovers, Added
    <2>2. DagInv' /\ DagGrows
      BY <1>1, KeepDag DEF vars, dagVars, Inv, DagGrows
    <2>3. RoundAgreement' /\ HonestNeverAccused'
      BY <1>1, <2>2, KeepAgreement, KeepBlame DEF vars, dagVars, Inv, DagInv
    <2> QED BY <2>1, <2>2, <2>3 DEF Inv
  <1>2. ASSUME NEW n \in Honest, NEW c \in Callers, Propose(n, c) PROVE Inv'
    BY <1>2, ProposeGetTipsInv, ProposeAddHeaderInv DEF Propose
  <1>3. ASSUME NEW n \in Honest, NEW h \in Handlers, Receive(n, h) PROVE Inv'
    BY <1>3, ReceiveCheckInv, ReceiveAddInv DEF Receive
  <1>4. ASSUME NEW b \in Byz, Misbehave(b) PROVE Inv'
    <2>1. PICK i \in Ids, P \in SUBSET (UsedIds \cup {Genesis}) :
            ByzBroadcast([id |-> i, author |-> b, preds |-> P])
      BY <1>4 DEF Misbehave
    <2>2. UsedIds \subseteq Ids
      BY DEF UsedIds, Inv, TypeOK, Headers
    <2>3. [id |-> i, author |-> b, preds |-> P] \in Headers
      BY <2>2 DEF Headers, Nodes, Vertices
    <2> QED BY <2>1, <2>3, ByzBroadcastInv
  <1> QED BY <1>1, <1>2, <1>3, <1>4 DEF Next

-----------------------------------------------------------------------------
(* Theorems *)

\* Every reachable state is of the declared types.
THEOREM TypeCorrect == Spec => []TypeOK
  <1>1. Inv => TypeOK
    BY DEF Inv
  <1> QED BY <1>1, InitInv, NextInv, PTL DEF Spec

\* However proposals, handlers and Byzantine broadcasts interleave, a miner
\* that runs the code is accused only when a header of its own rests on an
\* identifier sent in two versions, or by itself after overlapping proposals.
THEOREM AccusationSound == Spec => []HonestNeverAccused
  <1>1. Inv => HonestNeverAccused
    BY DEF Inv
  <1> QED BY <1>1, InitInv, NextInv, PTL DEF Spec

\* Miners that hold a header resting on nothing sent in two versions give it
\* the same round.
THEOREM RoundsAgree == Spec => []RoundAgreement
  <1>1. Inv => RoundAgreement
    BY DEF Inv
  <1> QED BY <1>1, InitInv, NextInv, PTL DEF Spec

-----------------------------------------------------------------------------
(* Delivery. *)

\* A step inserts one header into one DAG, or no DAG changes what it holds.
LEMMA StepInserts ==
    ASSUME Inv, [Next]_vars
    PROVE  \/ \E n \in Honest, x \in Headers : \E r \in Nat : Inserts(n, x, r)
           \/ UNCHANGED <<vertices, header, delivered, sequence>>
  <1> DEFINE Goal == \/ \E n \in Honest, x \in Headers : \E r \in Nat : Inserts(n, x, r)
                     \/ UNCHANGED <<vertices, header, delivered, sequence>>
  <1>a. ASSUME NEW n \in Honest, NEW x \in Headers, x \in sent' \/ x.id \notin vertices'[n], AddHeader(n, x)
        PROVE  Goal
    <2>1. CASE ignoreHeader(n, x)
      BY <2>1 DEF ignoreHeader, dagVars
    <2>2. CASE handleEquivocation(n, x)
      BY <2>2 DEF handleEquivocation
    <2> QED BY <1>a, <2>1, <2>2, AddHeaderCases DEF Inv
  <1>1. ASSUME NEW n \in Honest, NEW c \in Callers, ProposeAddHeader(n, c) PROVE Goal
    <2>1. outbox[n][c] \in Headers /\ AddHeader(n, outbox[n][c])
          /\ (outbox[n][c] \in sent' \/ outbox[n][c].id \notin vertices'[n])
      BY <1>1 DEF ProposeAddHeader, Inv, TypeOK
    <2> QED BY <2>1, <1>a
  <1>2. ASSUME NEW n \in Honest, NEW h \in Handlers, ReceiveAdd(n, h) PROVE Goal
    <2>1. inbox[n][h] \in Headers /\ AddHeader(n, inbox[n][h]) /\ inbox[n][h] \in sent'
      BY <1>2 DEF ReceiveAdd, Inv, TypeOK, InboxKnown
    <2> QED BY <2>1, <1>a
  <1>3. \/ \E n \in Honest, c \in Callers : ProposeAddHeader(n, c)
        \/ \E n \in Honest, h \in Handlers : ReceiveAdd(n, h)
        \/ UNCHANGED dagVars
    BY DEF Next, Propose, Receive, Misbehave, ProposeGetTips, ReceiveCheck, ByzBroadcast, vars
  <1> QED BY <1>1, <1>2, <1>3 DEF dagVars

\* s delivers V once each and in the order of pr.
Has(s, V) == \A v \in V : \E k \in 1..Len(s) : s[k] = v
Only(s, V) == \A k \in 1..Len(s) : s[k] \in V
Once(s) == \A k \in 1..Len(s) : \A j \in 1..Len(s) : s[j] = s[k] => j = k
Before(s, k, p) == \E j \in 1..Len(s) : j < k /\ s[j] = p
Ordered(s, pr) == \A k \in 1..Len(s) : \A p \in pr[s[k]] : Before(s, k, p)
CausalOrder(s, V, pr) == Has(s, V) /\ Only(s, V) /\ Once(s) /\ Ordered(s, pr)

\* The predecessors in miner n's DAG.
predMap(n) == [v \in vertices[n] |-> predsOf(n, v)]

LEMMA CausalIsDelivery ==
    ASSUME NEW n \in Honest, CausalOrder(sequence[n], vertices[n], predMap(n))
    PROVE  LET s == sequence[n] IN
           /\ \A v \in vertices[n] : \E k \in 1..Len(s) : s[k] = v
           /\ \A k \in 1..Len(s) :
                /\ s[k] \in vertices[n]
                /\ \A j \in 1..Len(s) : s[j] = s[k] => j = k
                /\ \A p \in predsOf(n, s[k]) : \E j \in 1..Len(s) : j < k /\ s[j] = p
  <1> DEFINE s == sequence[n]
  <1>1. ASSUME NEW k \in 1..Len(s), NEW p \in predsOf(n, s[k]) PROVE \E j \in 1..Len(s) : j < k /\ s[j] = p
    <2>1. s[k] \in vertices[n]
      BY DEF CausalOrder, Only
    <2>2. predMap(n)[s[k]] = predsOf(n, s[k])
      BY <2>1 DEF predMap
    <2> QED BY <1>1, <2>2 DEF CausalOrder, Ordered, Before
  <1> QED BY <1>1, Zenon DEF CausalOrder, Has, Only, Once

\* The order is about the predecessors of the delivered headers only.
LEMMA CausalSame ==
    ASSUME NEW s, NEW V, NEW pr, NEW qr, CausalOrder(s, V, pr),
           \A v \in V : qr[v] = pr[v]
    PROVE  CausalOrder(s, V, qr)
  <1>1. ASSUME NEW k \in 1..Len(s), NEW p \in qr[s[k]] PROVE Before(s, k, p)
    <2>1. s[k] \in V /\ qr[s[k]] = pr[s[k]]
      BY <1>1 DEF CausalOrder, Only
    <2> QED BY <1>1, <2>1 DEF CausalOrder, Ordered
  <1>2. Ordered(s, qr)
    BY <1>1 DEF Ordered
  <1> QED BY <1>2 DEF CausalOrder

\* One header more, after everything it references.
LEMMA CausalAppend ==
    ASSUME NEW S, NEW s \in Seq(S), NEW V, NEW pr, CausalOrder(s, V, pr),
           NEW i \in S, i \notin V, pr[i] \subseteq V
    PROVE  CausalOrder(Append(s, i), V \cup {i}, pr)
  <1> DEFINE t == Append(s, i)
             n == Len(s) + 1
  <1>1. /\ 1..Len(t) = (1..Len(s)) \cup {n} /\ n \notin 1..Len(s)
        /\ \A k \in 1..Len(s) : t[k] = s[k] /\ k < n
        /\ t[n] = i
    OBVIOUS
  <1> HIDE DEF t, n
  <1>2. \A k \in 1..Len(s) : s[k] \in V /\ s[k] # i
    BY DEF CausalOrder, Only
  <1>3. Has(t, V \cup {i})
    BY <1>1 DEF CausalOrder, Has
  <1>4. Only(t, V \cup {i})
    BY <1>1, <1>2 DEF Only
  <1>5. Once(t)
    <2> SUFFICES ASSUME NEW k \in 1..Len(t), NEW j \in 1..Len(t), t[j] = t[k] PROVE j = k
      BY DEF Once
    <2>1. CASE k = n
      BY <1>1, <1>2, <2>1
    <2>2. CASE k # n
      <3>1. k \in 1..Len(s) /\ t[k] = s[k]
        BY <1>1, <2>2
      <3>2. j \in 1..Len(s) /\ t[j] = s[j]
        BY <1>1, <1>2, <3>1
      <3> QED BY <3>1, <3>2 DEF CausalOrder, Once
    <2> QED BY <2>1, <2>2
  <1>6. Ordered(t, pr)
    <2> SUFFICES ASSUME NEW k \in 1..Len(t), NEW p \in pr[t[k]] PROVE Before(t, k, p)
      BY DEF Ordered
    <2>1. CASE k = n
      <3>1. p \in V
        BY <1>1, <2>1
      <3>2. PICK j \in 1..Len(s) : s[j] = p
        BY <3>1 DEF CausalOrder, Has
      <3>3. j \in 1..Len(t) /\ j < k /\ t[j] = p
        BY <1>1, <2>1, <3>2
      <3> QED BY <3>3 DEF Before
    <2>2. CASE k # n
      <3>1. k \in 1..Len(s) /\ t[k] = s[k]
        BY <1>1, <2>2
      <3>2. Before(s, k, p)
        BY <3>1 DEF CausalOrder, Ordered
      <3>3. PICK j \in 1..Len(s) : j < k /\ s[j] = p
        BY <3>2 DEF Before
      <3>4. j \in 1..Len(t) /\ t[j] = p
        BY <1>1, <3>3
      <3> QED BY <3>3, <3>4 DEF Before
    <2> QED BY <2>1, <2>2
  <1>7. CausalOrder(t, V \cup {i}, pr)
    BY <1>3, <1>4, <1>5, <1>6 DEF CausalOrder
  <1> QED BY <1>7 DEF t

\* Everything a miner has it has delivered.
AllDelivered == delivered = vertices

\* In the order of the headers' predecessors.
InOrder == \A n \in Honest : CausalOrder(sequence[n], vertices[n], predMap(n))

LEMMA NextDelivers == Inv /\ AllDelivered /\ InOrder /\ [Next]_vars => AllDelivered' /\ InOrder'
  <1> SUFFICES ASSUME Inv, AllDelivered, InOrder, [Next]_vars
               PROVE  AllDelivered' /\ InOrder'
    OBVIOUS
  <1>1. CASE UNCHANGED <<vertices, header, delivered, sequence>>
    BY <1>1 DEF AllDelivered, InOrder, predMap, predsOf
  <1>2. ASSUME NEW n \in Honest, NEW x \in Headers, NEW r \in Nat, Inserts(n, x, r)
        PROVE  AllDelivered' /\ InOrder'
    <2> DEFINE i == x.id
    <2>1. /\ vertices' = [vertices EXCEPT ![n] = @ \cup {i}]
          /\ delivered' = [delivered EXCEPT ![n] = @ \cup {i}]
          /\ sequence' = [sequence EXCEPT ![n] = Append(@, i)]
          /\ i \notin vertices[n] /\ x.preds \subseteq vertices[n]
      BY <1>2 DEF Inserts, insertVertex, tryDeliver, AllDelivered
    <2>2. AllDelivered'
      BY <2>1 DEF AllDelivered
    <2>3. /\ i \in Vertices /\ i # Genesis /\ header'[n][i] = x
          /\ \A v \in vertices[n] : header'[n][v] = header[n][v]
          /\ \A m \in Honest : m # n => header'[m] = header[m]
      BY <1>2, InsertEffect DEF Inv, Vertices
    <2> HIDE DEF i
    <2>4. ASSUME NEW m \in Honest PROVE CausalOrder(sequence[m], vertices[m], predMap(m))
      BY DEF InOrder
    <2>5. ASSUME NEW m \in Honest PROVE CausalOrder(sequence'[m], vertices'[m], predMap(m)')
      <3>1. CASE m # n
        <4>1. sequence'[m] = sequence[m] /\ vertices'[m] = vertices[m] /\ header'[m] = header[m]
          BY <2>1, <2>3, <3>1 DEF Inv, TypeOK
        <4>2. predMap(m)' = predMap(m)
          BY <4>1 DEF predMap, predsOf
        <4> QED BY <2>4, <4>1, <4>2
      <3>2. CASE m = n
        <4>1. /\ sequence'[n] = Append(sequence[n], i) /\ vertices'[n] = vertices[n] \cup {i}
              /\ sequence[n] \in Seq(Vertices)
          BY <2>1 DEF Inv, TypeOK
        <4> DEFINE qr == predMap(n)'
        <4>2. qr[i] = x.preds /\ \A v \in vertices[n] : qr[v] = predMap(n)[v]
          BY <2>3, <4>1 DEF predMap, predsOf
        <4> HIDE DEF qr
        <4>3. CausalOrder(sequence[n], vertices[n], qr)
          BY <2>4, <4>2, CausalSame
        <4>4. CausalOrder(Append(sequence[n], i), vertices[n] \cup {i}, qr)
          BY <2>1, <2>3, <4>1, <4>2, <4>3, CausalAppend
        <4> QED BY <3>2, <4>1, <4>4 DEF qr
      <3> QED BY <3>1, <3>2
    <2> QED BY <2>2, <2>5 DEF InOrder
  <1> QED BY <1>1, <1>2, StepInserts

\* Every header a miner has accepted is in its sequence exactly once, after
\* everything it references, in whatever order headers arrive.
THEOREM CausalDelivery == Spec => []DeliveredInCausalOrder
  <1>1. Init => AllDelivered /\ InOrder
    <2> SUFFICES ASSUME Init PROVE AllDelivered /\ InOrder
      OBVIOUS
    <2>1. AllDelivered
      BY DEF Init, AllDelivered
    <2>2. \A n \in Honest : sequence[n] = <<Genesis>> /\ vertices[n] = {Genesis}
      BY DEF Init
    <2>3. 1..Len(<<Genesis>>) = {1} /\ <<Genesis>>[1] = Genesis
      OBVIOUS
    <2>4. ASSUME NEW n \in Honest PROVE CausalOrder(<<Genesis>>, {Genesis}, predMap(n))
      <3>1. predMap(n)[Genesis] = {}
        BY <2>2 DEF predMap, predsOf
      <3> QED BY <2>3, <3>1 DEF CausalOrder, Has, Only, Once, Ordered
    <2> QED BY <2>1, <2>2, <2>4 DEF InOrder
  <1>2. InOrder => DeliveredInCausalOrder
    BY CausalIsDelivery, Zenon DEF InOrder, DeliveredInCausalOrder
  <1> QED BY <1>1, <1>2, NextDelivers, InitInv, NextInv, PTL DEF Spec
=============================================================================
