------------------------------ MODULE Blocklace ------------------------------
(***************************************************************************)
(* The Blocklace DAG (blocklace/dag.go): every honest miner keeps its own   *)
(* in-memory DAG, proposes headers that reference its current tips and      *)
(* receives the headers of the others.  DAG methods take the DAG's mutex,   *)
(* so each of them is one step; ProposeHeader and ReceiveHeader are         *)
(* sequences of such calls with no lock held in between, so they are        *)
(* several steps, and the proposals and the receive handlers of a miner     *)
(* interleave, several of each.                                             *)
(*                                                                          *)
(* The network is a pool of headers that were broadcast: any of them may    *)
(* reach any miner at any time, any number of times, in any order or never. *)
(* A header is handed to ReceiveHeader under its author's name.  Nothing    *)
(* binds a header's ID to its content: a miner draws a fresh random one, a  *)
(* Byzantine node may send any header under any identifier, one it or       *)
(* another node has used included, so every DAG has its own content for an  *)
(* identifier.                                                              *)
(*                                                                          *)
(* Header type, timestamp, signature and payload are not read by the DAG    *)
(* and are left out, and so is Height, with the miner's own round counter   *)
(* that only feeds it: no code reads a header's Height.                     *)
(***************************************************************************)
EXTENDS Naturals, Sequences, FiniteSets

CONSTANTS
    Honest,     \* miners that run the code
    Byz,        \* authors that do not run the code
    Callers,    \* concurrent ProposeHeader calls of one miner
    Handlers,   \* concurrent ReceiveHeader calls of one miner
    Ids,        \* identifiers headers can get
    Genesis,    \* ids.Empty, the genesis vertex
    NoHeader,   \* a call that holds no header
    MaxHeaders  \* bound: headers on the network when a Byzantine node sends one

Nodes == Honest \cup Byz
Vertices == Ids \cup {Genesis}

\* core.BaseHeader, with the node it is received from.
Headers == [id : Ids, author : Nodes, preds : SUBSET Vertices]

ASSUME BlocklaceAssumption ==
    /\ Honest \cap Byz = {}
    /\ Genesis \notin Ids
    /\ NoHeader \notin Headers
    /\ MaxHeaders \in Nat

VARIABLES
    sent,       \* headers broadcast to the network
    vertices,   \* vertices[n] : DAG.vertices of miner n (keys)
    header,     \* header[n][v]: Vertex.Header and Vertex.Author
    rnd,        \* rnd[n][v]   : Vertex.Round
    tips,       \* tips[n]     : DAG.tips
    tracked,    \* tracked[n]  : vertices in DAG.equivocations, of all authors
    byzantine,  \* byzantine[n]: DAG.byzantine
    delivered,  \* delivered[n]: vertices whose Delivered flag is set
    sequence,   \* sequence[n] : DAG.sequence
    height,     \* height[n]   : DAG.height
    drawn,      \* identifiers some header has, sent or not
    outbox,     \* outbox[n][c]: the header ProposeHeader call c is about to add
    inbox,      \* inbox[n][h] : the header handler h is about to add
    raced       \* history: miners with two overlapping ProposeHeader calls so far

dagVars == <<vertices, header, rnd, tips, tracked, byzantine, delivered, sequence, height>>
vars == <<sent, drawn, dagVars, outbox, inbox, raced>>

TypeOK ==
    /\ sent \subseteq Headers
    /\ vertices \in [Honest -> SUBSET Vertices]
    /\ header \in [Honest -> [Vertices -> Headers \cup {NoHeader}]]
    /\ rnd \in [Honest -> [Vertices -> Nat]]
    /\ tips \in [Honest -> SUBSET Ids]
    /\ tracked \in [Honest -> SUBSET Ids]
    /\ byzantine \in [Honest -> SUBSET Nodes]
    /\ delivered \in [Honest -> SUBSET Vertices]
    /\ sequence \in [Honest -> Seq(Vertices)]
    /\ height \in [Honest -> Nat]
    /\ drawn \subseteq Ids
    /\ outbox \in [Honest -> [Callers -> Headers \cup {NoHeader}]]
    /\ inbox \in [Honest -> [Handlers -> Headers \cup {NoHeader}]]
    /\ raced \subseteq Honest

\* NewDAG: the genesis vertex is known and delivered but is not a tip.
Init ==
    /\ sent = {}
    /\ vertices = [n \in Honest |-> {Genesis}]
    /\ header = [n \in Honest |-> [v \in Vertices |-> NoHeader]]
    /\ rnd = [n \in Honest |-> [v \in Vertices |-> 0]]
    /\ tips = [n \in Honest |-> {}]
    /\ tracked = [n \in Honest |-> {}]
    /\ byzantine = [n \in Honest |-> {}]
    /\ delivered = [n \in Honest |-> {Genesis}]
    /\ sequence = [n \in Honest |-> <<Genesis>>]
    /\ height = [n \in Honest |-> 0]
    /\ drawn = {}
    /\ outbox = [n \in Honest |-> [c \in Callers |-> NoHeader]]
    /\ inbox = [n \in Honest |-> [h \in Handlers |-> NoHeader]]
    /\ raced = {}

-----------------------------------------------------------------------------
(* AddHeader and the functions it calls, under DAG.mu *)

\* Mutants of calculateRound: the round of the highest predecessor itself,
\* and one more than the local height.
calculateRoundNoIncrement(n, P) ==
    {r \in {0} \cup {rnd[n][p] : p \in P} : \A p \in P : r >= rnd[n][p]}

calculateRoundFromHeight(n, P) == {height[n] + 1}

\* calculateRound: 0 without predecessors, else one more than the largest
\* round of a predecessor.  A one-element set when P is finite.
calculateRound(n, P) ==
    {r \in {0} \cup {rnd[n][p] + 1 : p \in P} : \A p \in P : r > rnd[n][p]}

\* Mutant of detectEquivocation: vertices of all authors are compared.
detectEquivocationAnyAuthor(n, x, r) ==
    \E w \in tracked[n] : rnd[n][w] = r /\ w # x.id

\* detectEquivocation, the comparison: the author of x already has another
\* vertex of round r at n.
detectEquivocation(n, x, r) ==
    \E w \in tracked[n] : /\ header[n][w].author = x.author
                          /\ rnd[n][w] = r
                          /\ w # x.id

\* handleEquivocation: the author is marked; the vertex goes nowhere.
handleEquivocation(n, x) ==
    /\ byzantine' = [byzantine EXCEPT ![n] = @ \cup {x.author}]
    /\ UNCHANGED <<vertices, header, rnd, tips, tracked, delivered, sequence, height>>

\* updateTips: the new vertex becomes a tip and its predecessors stop being one.
updateTips(n, x) ==
    tips' = [tips EXCEPT ![n] = (@ \cup {x.id}) \ x.preds]

\* tryDeliver, called for a vertex just added.  Such a vertex has no
\* successors (nothing could reference it before), so the loop that delivers
\* its successors has nothing to do.
tryDeliver(n, x, r) ==
    IF x.preds \subseteq delivered[n]
      THEN /\ delivered' = [delivered EXCEPT ![n] = @ \cup {x.id}]
           /\ sequence' = [sequence EXCEPT ![n] = Append(@, x.id)]
           /\ height' = [height EXCEPT ![n] = IF r > @ THEN r ELSE @]
      ELSE UNCHANGED <<delivered, sequence, height>>

\* The end of AddHeader: track the vertex, add it to the graph, update the
\* tips and deliver it.
insertVertex(n, x, r) ==
    /\ tracked' = [tracked EXCEPT ![n] = @ \cup {x.id}]
    /\ vertices' = [vertices EXCEPT ![n] = @ \cup {x.id}]
    /\ header' = [header EXCEPT ![n][x.id] = x]
    /\ rnd' = [rnd EXCEPT ![n][x.id] = r]
    /\ updateTips(n, x)
    /\ tryDeliver(n, x, r)
    /\ UNCHANGED byzantine

\* AddHeader's early returns that change nothing: the identifier is known,
\* whatever it came with, or a predecessor is not known.  An unknown
\* predecessor is not remembered or asked for.
ignoreHeader(n, x) ==
    /\ \/ x.id \in vertices[n]
       \/ ~ x.preds \subseteq vertices[n]
    /\ UNCHANGED dagVars

\* Mutant of AddHeader: no check for a known vertex.
AddHeaderTwice(n, x) ==
    /\ x.preds \subseteq vertices[n]
    /\ \E r \in calculateRound(n, x.preds) :
         IF detectEquivocation(n, x, r)
           THEN handleEquivocation(n, x)
           ELSE insertVertex(n, x, r)

AddHeader(n, x) ==
    \/ ignoreHeader(n, x)
    \/ /\ x.id \notin vertices[n]
       /\ x.preds \subseteq vertices[n]
       /\ \E r \in calculateRound(n, x.preds) :
            IF detectEquivocation(n, x, r)
              THEN handleEquivocation(n, x)
              ELSE insertVertex(n, x, r)

-----------------------------------------------------------------------------
(* CordialMiner *)

\* ProposeHeader, first half: a header with a fresh identifier that
\* references the tips read by GetTips.  Nothing stops a second call while
\* one is under way.
ProposeGetTips(n, c, i) ==
    /\ outbox[n][c] = NoHeader
    /\ i \in Ids \ drawn
    /\ drawn' = drawn \cup {i}
    /\ outbox' = [outbox EXCEPT ![n][c] = [id |-> i, author |-> n, preds |-> tips[n]]]
    /\ raced' = IF \E d \in Callers : outbox[n][d] # NoHeader THEN raced \cup {n} ELSE raced
    /\ UNCHANGED <<sent, dagVars, inbox>>

\* ProposeHeader, second half: the header is added to the miner's own DAG and
\* broadcast.  When AddHeader returns an error the header is dropped.
ProposeAddHeader(n, c) ==
    LET x == outbox[n][c] IN
    /\ x # NoHeader
    /\ AddHeader(n, x)
    /\ sent' = IF x.id \in vertices'[n] THEN sent \cup {x} ELSE sent
    /\ outbox' = [outbox EXCEPT ![n][c] = NoHeader]
    /\ UNCHANGED <<drawn, inbox, raced>>

\* ReceiveHeader, first half: the sender is not marked at this moment.  (When
\* it is, ReceiveHeader returns ErrByzantine and nothing changes.)
ReceiveCheck(n, h, x) ==
    /\ inbox[n][h] = NoHeader
    /\ x \in sent
    /\ x.author \notin byzantine[n]
    /\ inbox' = [inbox EXCEPT ![n][h] = x]
    /\ UNCHANGED <<sent, drawn, dagVars, outbox, raced>>

\* ReceiveHeader, second half: AddHeader, whatever it returns.
ReceiveAdd(n, h) ==
    /\ inbox[n][h] # NoHeader
    /\ AddHeader(n, inbox[n][h])
    /\ inbox' = [inbox EXCEPT ![n][h] = NoHeader]
    /\ UNCHANGED <<sent, drawn, outbox, raced>>

\* Identifiers the network has seen.
UsedIds == {x.id : x \in sent}

\* A Byzantine node broadcasts a header of its own, on any predecessors and
\* under any identifier but one a miner has drawn and not yet sent: a fresh
\* one, or one that was sent before, by itself or by another node.
ByzBroadcast(x) ==
    /\ Cardinality(sent) < MaxHeaders
    /\ x.id \in UsedIds \cup (Ids \ drawn)
    /\ sent' = sent \cup {x}
    /\ drawn' = drawn \cup {x.id}
    /\ UNCHANGED <<dagVars, outbox, inbox, raced>>

Propose(n, c) == ProposeAddHeader(n, c) \/ \E i \in Ids : ProposeGetTips(n, c, i)
Receive(n, h) == ReceiveAdd(n, h) \/ \E x \in sent : ReceiveCheck(n, h, x)
Misbehave(b) ==
    \E i \in Ids, P \in SUBSET (UsedIds \cup {Genesis}) :
      ByzBroadcast([id |-> i, author |-> b, preds |-> P])

Next ==
    \/ \E n \in Honest, c \in Callers : Propose(n, c)
    \/ \E n \in Honest, h \in Handlers : Receive(n, h)
    \/ \E b \in Byz : Misbehave(b)

Spec == Init /\ [][Next]_vars

\* The transport hands a miner, again and again, headers it lacks and could
\* add, and a handler that has passed the check goes on to AddHeader.
Redeliver(n, h) ==
    \E x \in sent : /\ x.id \notin vertices[n]
                    /\ x.preds \subseteq vertices[n]
                    /\ ReceiveCheck(n, h, x)

FairSpec ==
    /\ Spec
    /\ \A n \in Honest, h \in Handlers :
         WF_vars(ReceiveAdd(n, h)) /\ SF_vars(Redeliver(n, h))

-----------------------------------------------------------------------------
(* Properties *)

\* Identifiers that were sent with two contents, or by two authors.
doubled == {i \in Ids : \E x, y \in sent : x.id = i /\ y.id = i /\ x # y}

\* The predecessors of v in miner n's DAG.
predsOf(n, v) == IF v = Genesis THEN {} ELSE header[n][v].preds

\* Nothing v rests on in n's DAG was sent in two versions.
Clean(n, v) ==
    \E S \in SUBSET vertices[n] :
      /\ v \in S
      /\ \A w \in S : w \notin doubled /\ predsOf(n, w) \subseteq S

\* Who may be accused by the round rule of detectEquivocation although it
\* runs the code: only a miner one of whose own headers rests on an identifier
\* that was sent in two versions, or, by itself alone, a miner that let two
\* ProposeHeader calls overlap.
HonestNeverAccused ==
    \A m, a \in Honest : a \in byzantine[m] =>
      \/ a = m /\ a \in raced
      \/ \E v \in vertices[a] \ {Genesis} : header[a][v].author = a /\ ~ Clean(a, v)

\* Rounds are computed locally from whatever a miner holds, yet a header that
\* rests on nothing sent in two versions has the same Round at every miner
\* that holds it: equivocation means the same to all of them.
RoundAgreement ==
    \A m, n \in Honest : \A v \in vertices[m] \cap vertices[n] :
      rnd[m][v] = rnd[n][v] \/ ~ Clean(m, v)

\* Every accepted header is delivered exactly once and after everything it
\* references: nothing waits for ever in the graph.
DeliveredInCausalOrder ==
    \A n \in Honest :
      LET s == sequence[n] IN
      /\ \A v \in vertices[n] : \E k \in 1..Len(s) : s[k] = v
      /\ \A k \in 1..Len(s) :
           /\ s[k] \in vertices[n]
           /\ \A j \in 1..Len(s) : s[j] = s[k] => j = k
           /\ \A p \in predsOf(n, s[k]) : \E j \in 1..Len(s) : j < k /\ s[j] = p

\* What dag.go says of a marked sender: its headers are ignored.  Violated
\* with two handlers, since the check and the addition are two critical
\* sections.
Quarantine ==
    [][\A n \in Honest : \A v \in vertices'[n] \ vertices[n] :
         header'[n][v].author \notin byzantine[n] \ {n}]_vars

\* Every header of an honest miner reaches every honest miner's DAG.
HonestHeadersSpread ==
    \A i \in Ids : \A n \in Honest :
      (\E x \in sent : x.id = i /\ x.author \in Honest) ~> (i \in vertices[n])
=============================================================================
