-------------------------- MODULE ChainSyncProofs --------------------------
(***************************************************************************)
(* While nodes join, chains stay linked and UTXO sets stay explained by    *)
(* the blocks held in full, for any number of nodes, whoever they ask, any *)
(* transactions, MAX_HEADERS, number of losses and initial views.          *)
(***************************************************************************)
EXTENDS ChainSync, WellFoundedInduction, TLAPS

-----------------------------------------------------------------------------
(* Least numbers *)

Less == {ss \in Nat \X Nat : ss[1] < ss[2]}

LEMMA LessWF == IsWellFoundedOn(Less, Nat)
  BY NatLessThanWellFounded, Zenon DEF OpToRel, Less

\* Min picks the least member of a set of natural numbers.
LEMMA MinLeast ==
  ASSUME NEW S \in SUBSET Nat, S # {}
  PROVE  Min(S) \in S /\ \A y \in S : Min(S) <= y
  <1>1. \E x \in S : \A y \in S : ~(<<y, x>> \in Less)
    BY LessWF, WFMin, Zenon
  <1>2. PICK x \in S : \A y \in S : ~(<<y, x>> \in Less)
    BY <1>1
  <1>3. ASSUME NEW y \in S
        PROVE  x <= y
    <2>1. x \in Nat /\ y \in Nat /\ ~(<<y, x>> \in Less)
      BY <1>2
    <2> QED
      BY <2>1 DEF Less
  <1> QED
    BY <1>2, <1>3 DEF Min

-----------------------------------------------------------------------------
(* Chains and batches of headers *)

\* Entry i of a chain has height i - 1.
Linked(c) == \A i \in DOMAIN c : c[i].height = i - 1

\* FirstAwaited gives an awaited entry, or 0 if there is none.
LEMMA FirstAwaitedIs ==
  ASSUME NEW c \in Seq(Entries)
  PROVE  /\ FirstAwaited(c) \in {0} \cup DOMAIN c
         /\ FirstAwaited(c) # 0 => c[FirstAwaited(c)].awaited
  <1> DEFINE S == {i \in DOMAIN c : c[i].awaited}
  <1>1. CASE S = {}
    BY <1>1 DEF FirstAwaited, FirstOf
  <1>2. CASE S # {}
    <2>1. S \in SUBSET Nat
      OBVIOUS
    <2>2. Min(S) \in S
      BY <1>2, <2>1, MinLeast
    <2>3. FirstAwaited(c) = Min(S)
      BY <1>2 DEF FirstAwaited, FirstOf
    <2> QED
      BY <2>2, <2>3
  <1> QED
    BY <1>1, <1>2

\* IndexOf gives the index of a header, or 0 if there is none.
LEMMA IndexOfIs ==
  ASSUME NEW c \in Seq(Entries), NEW h
  PROVE  /\ IndexOf(c, h) \in {0} \cup DOMAIN c
         /\ IndexOf(c, h) # 0 => c[IndexOf(c, h)].height = h
  <1> DEFINE S == {i \in DOMAIN c : c[i].height = h}
  <1>1. CASE S = {}
    BY <1>1 DEF IndexOf, FirstOf
  <1>2. CASE S # {}
    <2>1. S \in SUBSET Nat
      OBVIOUS
    <2>2. Min(S) \in S
      BY <1>2, <2>1, MinLeast
    <2>3. IndexOf(c, h) = Min(S)
      BY <1>2 DEF IndexOf, FirstOf
    <2> QED
      BY <2>2, <2>3
  <1> QED
    BY <1>1, <1>2

\* getHeadersFrom answers with at most MAX_HEADERS headers of the chain.
LEMMA GetHeadersFromIs ==
  ASSUME NEW c \in Seq(Entries), NEW i \in 1 .. (Len(c) + 1)
  PROVE  /\ GetHeadersFrom(c, i) \in Seq(Heights)
         /\ Len(GetHeadersFrom(c, i)) <= MaxHeaders
         /\ \A k \in DOMAIN GetHeadersFrom(c, i) :
                i + k - 1 \in DOMAIN c /\ GetHeadersFrom(c, i)[k] = c[i + k - 1].height
  <1> DEFINE S == {MaxHeaders, Len(c) - i + 1}
             m == Min(S)
  <1>1. MaxHeaders \in Nat /\ Len(c) \in Nat /\ Len(c) - i + 1 \in Nat
    BY SyncAssumption
  <1>2. S \in SUBSET Nat /\ S # {}
    BY <1>1
  <1>3. m \in S /\ m <= MaxHeaders /\ m <= Len(c) - i + 1
    BY <1>2, MinLeast
  <1>4. m \in Nat
    BY <1>2, <1>3
  <1> HIDE DEF m
  <1>5. \A k \in 1 .. m : i + k - 1 \in 1 .. Len(c)
    BY <1>1, <1>3, <1>4
  <1>6. \A x \in 1 .. Len(c) : c[x].height \in Heights
    <2>1. \A e \in Entries : e.height \in Heights
      BY DEF Entries
    <2> QED
      BY <2>1
  <1> DEFINE g == [k \in 1 .. m |-> c[i + k - 1].height]
  <1>7. GetHeadersFrom(c, i) = g
    BY DEF GetHeadersFrom, m
  <1>8. g \in [1 .. m -> Heights]
    BY <1>5, <1>6
  <1>9. \A k \in 1 .. m : i + k - 1 \in DOMAIN c /\ g[k] = c[i + k - 1].height
    BY <1>5
  <1> HIDE DEF g
  <1>10. g \in Seq(Heights)
    BY <1>4, <1>8
  <1>11. Len(g) = m
    BY <1>4, <1>8, <1>10
  <1> QED
    BY <1>3, <1>4, <1>7, <1>8, <1>9, <1>10, <1>11

\* appendHeaders adds awaited headers and keeps the chain linked, if what an empty
\* chain gets begins with the genesis block.
LEMMA AppendHeadersIs ==
  ASSUME NEW c \in Seq(Entries), NEW hs \in Seq(Heights), Linked(c),
         c = <<>> /\ hs # <<>> => hs[1] = 0
  PROVE  /\ AppendHeaders(c, hs) \in Seq(Entries)
         /\ Linked(AppendHeaders(c, hs))
         /\ Len(AppendHeaders(c, hs)) >= Len(c)
         /\ \A i \in DOMAIN c : AppendHeaders(c, hs)[i] = c[i]
         /\ \A i \in DOMAIN AppendHeaders(c, hs) \ DOMAIN c :
                AppendHeaders(c, hs)[i].awaited /\ ~AppendHeaders(c, hs)[i].body
         /\ hs # <<>> => AppendHeaders(c, hs) # <<>>
  <1> DEFINE P(n) == /\ \A k \in 1 .. n : Follows(c, hs, k)
                     /\ n = Len(hs) \/ ~Follows(c, hs, n + 1)
             n == CHOOSE x \in 0 .. Len(hs) : P(x)
             S == {k \in 1 .. Len(hs) : ~Follows(c, hs, k)}
             e == [k \in 1 .. n |-> AwaitedHeader(hs[k])]
  <1>0. Len(hs) \in Nat /\ Len(c) \in Nat
    OBVIOUS
  <1>1. \E x \in 0 .. Len(hs) : P(x)
    <2>1. CASE S = {}
      <3>1. P(Len(hs))
        BY <2>1
      <3> QED
        BY <3>1, <1>0
    <2>2. CASE S # {}
      <3>1. S \in SUBSET Nat
        BY <1>0
      <3>2. Min(S) \in S /\ \A y \in S : Min(S) <= y
        BY <2>2, <3>1, MinLeast
      <3> DEFINE f == Min(S)
      <3> HIDE DEF f
      <3>3. f \in 1 .. Len(hs) /\ ~Follows(c, hs, f) /\ \A y \in S : f <= y
        BY <3>2 DEF f
      <3>4. \A k \in 1 .. (f - 1) : Follows(c, hs, k)
        BY <3>3, <1>0
      <3>5. f - 1 \in 0 .. Len(hs) /\ (f - 1) + 1 = f
        BY <3>3, <1>0
      <3>6. P(f - 1)
        BY <3>3, <3>4, <3>5
      <3> QED
        BY <3>5, <3>6
    <2> QED
      BY <2>1, <2>2
  <1>2. n \in 0 .. Len(hs) /\ P(n)
    BY <1>1
  <1>3. AppendHeaders(c, hs) = c \o e
    BY DEF AppendHeaders
  <1> HIDE DEF n
  <1>4. n \in Nat /\ n <= Len(hs)
    BY <1>0, <1>2
  <1>5. \A k \in 1 .. n : k \in DOMAIN hs /\ hs[k] \in Heights
    BY <1>4, <1>0
  <1>6. \A k \in 1 .. n : AwaitedHeader(hs[k]) \in Entries
    BY <1>5 DEF AwaitedHeader, Entries
  <1>7. e \in Seq(Entries) /\ Len(e) = n /\ \A k \in 1 .. n : e[k] = AwaitedHeader(hs[k])
    BY <1>4, <1>6
  <1> HIDE DEF e
  <1>8. /\ c \o e \in Seq(Entries)
        /\ Len(c \o e) = Len(c) + n
        /\ \A i \in 1 .. Len(c) : (c \o e)[i] = c[i]
        /\ \A i \in (Len(c) + 1) .. (Len(c) + n) : (c \o e)[i] = e[i - Len(c)]
    BY <1>7, <1>0, <1>4, SMTT(30)
  <1>9. \A k \in 1 .. n : hs[k] = Len(c) + k - 1
    <2> SUFFICES ASSUME \E k \in 1 .. n : hs[k] # Len(c) + k - 1
                 PROVE  FALSE
      OBVIOUS
    <2> DEFINE W == {k \in 1 .. n : hs[k] # Len(c) + k - 1}
               w == Min(W)
    <2>1. W \in SUBSET Nat /\ W # {}
      BY <1>4
    <2>2. w \in W /\ \A y \in W : w <= y
      BY <2>1, MinLeast
    <2> HIDE DEF w
    <2>3. w \in 1 .. n /\ hs[w] # Len(c) + w - 1 /\ Follows(c, hs, w)
      BY <2>2, <1>2
    <2>4. CASE w = 1 /\ c = <<>>
      BY <2>3, <2>4, <1>5
    <2>5. CASE w = 1 /\ c # <<>>
      <3>1. Len(c) \in DOMAIN c /\ LastHeight(c) = Len(c) - 1
        BY <2>5, <1>0 DEF Linked, LastHeight
      <3>2. hs[1] = LastHeight(c) + 1
        BY <2>3, <2>5 DEF Follows
      <3> QED
        BY <2>3, <2>5, <3>1, <3>2, <1>0
    <2>6. CASE w # 1
      <3>1. w - 1 \in 1 .. n /\ w - 1 \notin W
        BY <2>2, <2>3, <2>6, <1>4
      <3>2. hs[w - 1] = Len(c) + (w - 1) - 1
        BY <3>1
      <3>3. hs[w] = hs[w - 1] + 1
        BY <2>3, <2>6 DEF Follows
      <3> QED
        BY <2>3, <3>2, <3>3, <1>0, <1>4
    <2> QED
      BY <2>4, <2>5, <2>6
  <1>10. \A i \in (Len(c) + 1) .. (Len(c) + n) :
            /\ (c \o e)[i].height = i - 1
            /\ (c \o e)[i].awaited /\ ~(c \o e)[i].body
    <2> TAKE i \in (Len(c) + 1) .. (Len(c) + n)
    <2>1. i - Len(c) \in 1 .. n /\ (c \o e)[i] = e[i - Len(c)]
      BY <1>0, <1>4, <1>8
    <2>2. (c \o e)[i] = AwaitedHeader(hs[i - Len(c)]) /\ hs[i - Len(c)] = i - 1
      BY <2>1, <1>7, <1>9, <1>0, <1>4
    <2> QED
      BY <2>2 DEF AwaitedHeader
  <1>11. Linked(c \o e)
    BY <1>0, <1>4, <1>8, <1>10 DEF Linked
  <1>12. ASSUME hs # <<>>
         PROVE  c \o e # <<>>
    <2>1. CASE c # <<>>
      BY <2>1, <1>0, <1>4, <1>8
    <2>2. CASE c = <<>>
      <3>1. Len(hs) >= 1
        BY <1>12
      <3>2. Follows(c, hs, 1)
        BY <2>2 DEF Follows
      <3>3. n # 0
        BY <3>1, <3>2, <1>2
      <3> QED
        BY <3>3, <1>0, <1>4, <1>8
    <2> QED
      BY <2>1, <2>2
  <1> QED
    BY <1>0, <1>3, <1>4, <1>8, <1>10, <1>11, <1>12

-----------------------------------------------------------------------------
(* The invariant *)

Spent(a) == UNION {Spends[h] : h \in a}
Paid(a) == UNION {Creates[h] : h \in a}
Held(c) == {c[i].height : i \in {k \in DOMAIN c : c[k].body}}

\* A node with chain c, UTXO set u, view v and tracked proposals t that has applied
\* the blocks a.  The genesis block is applied first, and what is tracked extends the
\* chain and spends what is unspent, until it is committed.
GoodNode(c, u, a, v, t) ==
  /\ Linked(c)
  /\ \A i \in DOMAIN c : c[i].body <=> ~c[i].awaited
  /\ Spent(a) \subseteq Paid(a) /\ u = Paid(a) \ Spent(a) /\ a = Held(c)
  /\ a # {} => 0 \in a
  /\ \A h \in t : v = h - 1 /\ c # <<>> /\ LastHeight(c) = h - 1 /\ Spends[h] \subseteq u

\* The requests r and answers s of a node with chain c that has applied the blocks a.
\* While headers are exchanged nothing else is under way and nothing has been applied;
\* blocks are asked for once their header is there.
GoodStream(r, s, c, a) ==
  /\ \A k \in DOMAIN r : r[k].type = "GET_HEADERS" =>
        /\ r[k].from # None => c # <<>>
        /\ Len(r) = 1 /\ s = <<>> /\ a = {}
  /\ \A k \in DOMAIN r : r[k].type = "GET_BLOCK" => r[k].height < Len(c)
  /\ \A k \in DOMAIN s : s[k].type = "HEADERS" =>
        /\ c = <<>> /\ s[k].list # <<>> => s[k].list[1] = 0
        /\ Len(s) = 1 /\ r = <<>> /\ a = {}
  /\ \A k \in DOMAIN s : s[k].type = "BLOCK" => s[k].height < Len(c)

NodesGood ==
  \A n \in Nodes : GoodNode(chain[n], utxo[n], applied[n], view[n], tracked[n])
StreamsGood ==
  \A j \in Joiners : GoodStream(request[j], answer[j], chain[j], applied[j])
NewNodesEmpty ==
  \A j \in Joiners \ asked : request[j] = <<>> /\ answer[j] = <<>> /\ chain[j] = <<>>
FounderView ==
  view[founder] = (IF chain[founder] = <<>> THEN 0 ELSE Len(chain[founder]) - 1)

SyncInv == TypeOK /\ NodesGood /\ StreamsGood /\ NewNodesEmpty /\ FounderView

-----------------------------------------------------------------------------
(* What steps do to one node *)

\* A block that spends what is unspent keeps the UTXO set explained: its outputs are
\* new, its inputs were created by others.
LEMMA Applies ==
  ASSUME NEW a \in SUBSET Heights, NEW u, NEW h \in Heights \ a,
         Spent(a) \subseteq Paid(a), u = Paid(a) \ Spent(a), Spends[h] \subseteq u
  PROVE  /\ Spent(a \cup {h}) \subseteq Paid(a \cup {h})
         /\ (u \cup Creates[h]) \ Spends[h] = Paid(a \cup {h}) \ Spent(a \cup {h})
  <1>1. Spent(a \cup {h}) = Spent(a) \cup Spends[h]
    BY DEF Spent
  <1>2. Paid(a \cup {h}) = Paid(a) \cup Creates[h]
    BY DEF Paid
  <1>3. Creates[h] \cap Paid(a) = {}
    BY SyncAssumption DEF Paid
  <1> QED
    BY <1>1, <1>2, <1>3

\* A chain without blocks held in full.
LEMMA NothingHeld ==
  ASSUME NEW c, Held(c) = {}
  PROVE  \A i \in DOMAIN c : ~c[i].body
  <1> SUFFICES ASSUME NEW i \in DOMAIN c, c[i].body
               PROVE  FALSE
    OBVIOUS
  <1>1. c[i].height \in Held(c)
    BY DEF Held
  <1> QED
    BY <1>1

\* A node that has applied nothing tracks nothing: a block spends something.
LEMMA NothingTracked ==
  ASSUME NEW c, NEW u, NEW v, NEW t \in SUBSET (Heights \ {0}), GoodNode(c, u, {}, v, t)
  PROVE  u = {} /\ t = {}
  <1>1. u = {}
    BY DEF GoodNode, Paid
  <1>2. \A h \in t : Spends[h] = {}
    BY <1>1 DEF GoodNode
  <1> QED
    BY <1>1, <1>2, SyncAssumption

\* Awaited headers change nothing but the chain.
LEMMA GetsHeaders ==
  ASSUME NEW c \in Seq(Entries), NEW d \in Seq(Entries), NEW u, NEW v,
         NEW t \in SUBSET (Heights \ {0}), GoodNode(c, u, {}, v, t),
         Linked(d), Len(d) >= Len(c), \A i \in DOMAIN c : d[i] = c[i],
         \A i \in DOMAIN d \ DOMAIN c : d[i].awaited /\ ~d[i].body
  PROVE  GoodNode(d, u, {}, v, t)
  <1>1. t = {}
    BY NothingTracked
  <1>2. \A i \in DOMAIN c : c[i].body <=> ~c[i].awaited
    BY DEF GoodNode
  <1>3. \A i \in DOMAIN d : d[i].body <=> ~d[i].awaited
    BY <1>2
  <1>4. \A i \in DOMAIN c : ~c[i].body
    BY NothingHeld DEF GoodNode
  <1>5. \A i \in DOMAIN d : ~d[i].body
    BY <1>4
  <1>6. Held(d) = {}
    BY <1>5 DEF Held
  <1> QED
    BY <1>1, <1>3, <1>6 DEF GoodNode

\* The founder's chain begins.
LEMMA Founds ==
  ASSUME NEW u, NEW a, NEW v, NEW t, GoodNode(<<>>, u, a, v, t)
  PROVE  a = {} /\ GoodNode(<<FullBlock(0)>>, (u \cup Creates[0]) \ Spends[0], a \cup {0}, v, t)
  <1> DEFINE d == <<FullBlock(0)>>
  <1>1. a = {}
    BY DEF GoodNode, Held
  <1>2. t = {}
    BY DEF GoodNode
  <1>3. d[1].height = 0 /\ d[1].body /\ ~d[1].awaited /\ DOMAIN d = {1}
    BY DEF FullBlock
  <1> HIDE DEF d
  <1>4. Linked(d) /\ \A i \in DOMAIN d : d[i].body <=> ~d[i].awaited
    BY <1>3 DEF Linked
  <1>5. Held(d) = {0}
    BY <1>3 DEF Held
  <1>6. 0 \in Heights /\ Spends[0] = {}
    BY SyncAssumption DEF Heights
  <1>7. /\ Spent(a \cup {0}) \subseteq Paid(a \cup {0})
        /\ (u \cup Creates[0]) \ Spends[0] = Paid(a \cup {0}) \ Spent(a \cup {0})
    <2>1. a \in SUBSET Heights /\ 0 \in Heights \ a /\ Spends[0] \subseteq u
      BY <1>1, <1>6
    <2>2. Spent(a) \subseteq Paid(a) /\ u = Paid(a) \ Spent(a)
      BY DEF GoodNode
    <2> QED
      BY <2>1, <2>2, Applies
  <1>8. GoodNode(d, (u \cup Creates[0]) \ Spends[0], a \cup {0}, v, t)
    BY <1>1, <1>2, <1>4, <1>5, <1>7 DEF GoodNode
  <1> QED
    BY <1>1, <1>8 DEF d

\* A tracked proposal is committed: it still extends the chain.
LEMMA Commits ==
  ASSUME NEW c \in Seq(Entries), NEW u, NEW a \in SUBSET Heights, NEW v \in Nat,
         NEW t \in SUBSET (Heights \ {0}), NEW h \in t, GoodNode(c, u, a, v, t)
  PROVE  /\ c # <<>> /\ LastHeight(c) = h - 1 /\ Spends[h] \subseteq u
         /\ h = Len(c) /\ v + 1 = Len(c) /\ a # {}
         /\ GoodNode(Append(c, FullBlock(h)), (u \cup Creates[h]) \ Spends[h],
                     a \cup {h}, v + 1, t \ {h})
  <1> DEFINE d == Append(c, FullBlock(h))
  <1>1. c # <<>> /\ LastHeight(c) = h - 1 /\ Spends[h] \subseteq u /\ v = h - 1
    BY DEF GoodNode
  <1>2. h \in Nat
    BY SyncAssumption DEF Heights
  <1>3. Len(c) \in DOMAIN c /\ Len(c) \in Nat
    BY <1>1
  <1>4. h = Len(c)
    BY <1>1, <1>2, <1>3 DEF GoodNode, Linked, LastHeight
  <1>5. a # {}
    <2> SUFFICES ASSUME a = {}
                 PROVE  FALSE
      OBVIOUS
    <2>1. GoodNode(c, u, {}, v, t)
      OBVIOUS
    <2> QED
      BY <2>1, NothingTracked
  <1>6. h \notin a
    BY <1>3, <1>4 DEF GoodNode, Linked, Held
  <1>7. FullBlock(h) \in Entries
    BY DEF FullBlock, Entries
  <1>8. /\ DOMAIN d = 1 .. (Len(c) + 1)
        /\ \A i \in DOMAIN c : d[i] = c[i]
        /\ d[Len(c) + 1] = FullBlock(h)
    BY <1>7
  <1>9. FullBlock(h).height = h /\ FullBlock(h).body /\ ~FullBlock(h).awaited
    BY DEF FullBlock
  <1> HIDE DEF d
  <1>10. Linked(d)
    BY <1>3, <1>4, <1>8, <1>9 DEF GoodNode, Linked
  <1>11. \A i \in DOMAIN d : d[i].body <=> ~d[i].awaited
    <2> TAKE i \in DOMAIN d
    <2>1. CASE i \in DOMAIN c
      BY <2>1, <1>8 DEF GoodNode
    <2>2. CASE i = Len(c) + 1
      BY <2>2, <1>8, <1>9
    <2> QED
      BY <2>1, <2>2, <1>3, <1>8
  <1>12. Held(d) = Held(c) \cup {h}
    BY <1>3, <1>8, <1>9 DEF Held
  <1>13. /\ Spent(a \cup {h}) \subseteq Paid(a \cup {h})
         /\ (u \cup Creates[h]) \ Spends[h] = Paid(a \cup {h}) \ Spent(a \cup {h})
    <2>1. h \in Heights \ a
      BY <1>6
    <2>2. Spent(a) \subseteq Paid(a) /\ u = Paid(a) \ Spent(a)
      BY DEF GoodNode
    <2> QED
      BY <1>1, <2>1, <2>2, Applies
  <1>14. t \ {h} = {}
    BY <1>1, <1>2 DEF GoodNode, Heights
  <1>15. GoodNode(d, (u \cup Creates[h]) \ Spends[h], a \cup {h}, v + 1, t \ {h})
    BY <1>5, <1>10, <1>11, <1>12, <1>13, <1>14 DEF GoodNode
  <1> QED
    BY <1>1, <1>2, <1>4, <1>5, <1>15 DEF d

\* Only the genesis block completes its header, and only where nothing was applied.
LEMMA OnlyGenesisCompletes ==
  ASSUME NEW c \in Seq(Entries), NEW u, NEW a \in SUBSET Heights, NEW v,
         NEW t \in SUBSET (Heights \ {0}), GoodNode(c, u, a, v, t),
         NEW h \in Heights, NEW body \in BOOLEAN, FirstAwaited(c) # 0,
         CalculatedHash(h, body) = HeaderHash(c[FirstAwaited(c)].height)
  PROVE  /\ h = 0 /\ body = TRUE /\ FirstAwaited(c) = 1 /\ a = {} /\ 1 \in DOMAIN c
         /\ GoodNode([c EXCEPT ![1] = FullBlock(0)],
                     (u \cup Creates[0]) \ Spends[0], a \cup {0}, v, t)
  <1> DEFINE f == FirstAwaited(c)
             d == [c EXCEPT ![1] = FullBlock(0)]
  <1>1. f \in DOMAIN c /\ c[f].awaited
    BY FirstAwaitedIs
  <1>2. h = c[f].height /\ body = (c[f].height = 0) /\ Nonce(h) = 0
    BY DEF CalculatedHash, HeaderHash
  <1>3. h = 0
    BY <1>2 DEF Nonce
  <1>4. c[f].height = f - 1
    BY <1>1 DEF GoodNode, Linked
  <1>5. f = 1 /\ body = TRUE
    <2>1. c[f].height = 0 /\ f \in Nat
      BY <1>1, <1>2, <1>3
    <2>2. body = TRUE
      BY <2>1, <1>2, Zenon
    <2> QED
      BY <2>1, <2>2, <1>4
  <1>6. ~c[1].body /\ 1 \in DOMAIN c
    BY <1>1, <1>5 DEF GoodNode
  <1>7. 0 \notin a
    BY <1>6 DEF GoodNode, Held, Linked
  <1>8. a = {} /\ t = {}
    <2>1. a = {}
      BY <1>7 DEF GoodNode
    <2> QED
      BY <2>1, NothingTracked
  <1>9. DOMAIN d = DOMAIN c /\ d[1] = FullBlock(0) /\ \A i \in DOMAIN c \ {1} : d[i] = c[i]
    BY <1>6
  <1>10. FullBlock(0).height = 0 /\ FullBlock(0).body /\ ~FullBlock(0).awaited
    BY DEF FullBlock
  <1> HIDE DEF d
  <1>11. Linked(d)
    BY <1>9, <1>10 DEF GoodNode, Linked
  <1>12. \A i \in DOMAIN d : d[i].body <=> ~d[i].awaited
    <2> TAKE i \in DOMAIN d
    <2>1. CASE i = 1
      BY <2>1, <1>9, <1>10
    <2>2. CASE i # 1
      BY <2>2, <1>9 DEF GoodNode
    <2> QED
      BY <2>1, <2>2
  <1>13. \A i \in DOMAIN c : ~c[i].body
    BY <1>8, NothingHeld DEF GoodNode
  <1>14. Held(d) = {0}
    BY <1>6, <1>9, <1>10, <1>13 DEF Held
  <1>15. 0 \in Heights /\ Spends[0] = {}
    BY SyncAssumption DEF Heights
  <1>16. /\ Spent(a \cup {0}) \subseteq Paid(a \cup {0})
         /\ (u \cup Creates[0]) \ Spends[0] = Paid(a \cup {0}) \ Spent(a \cup {0})
    <2>1. 0 \in Heights \ a /\ Spends[0] \subseteq u
      BY <1>7, <1>15
    <2>2. Spent(a) \subseteq Paid(a) /\ u = Paid(a) \ Spent(a)
      BY DEF GoodNode
    <2> QED
      BY <2>1, <2>2, Applies
  <1>17. GoodNode(d, (u \cup Creates[0]) \ Spends[0], a \cup {0}, v, t)
    BY <1>8, <1>11, <1>12, <1>14, <1>16 DEF GoodNode
  <1> QED
    BY <1>3, <1>5, <1>6, <1>8, <1>17 DEF d

-----------------------------------------------------------------------------
(* What steps do to a stream *)

LEMMA RequestTypes ==
  /\ \A h \in Heights \cup {None} : GetHeaders(h) \in Requests
  /\ \A h \in Heights : GetBlock(h) \in Requests
  /\ \A m \in Requests : /\ m.type \in {"GET_HEADERS", "GET_BLOCK"}
                         /\ m.type = "GET_HEADERS" => m.from \in Heights \cup {None}
                         /\ m.type = "GET_BLOCK" => m.height \in Heights
  BY DEF GetHeaders, GetBlock, Requests

LEMMA AnswerTypes ==
  /\ \A hs \in Seq(Heights) : Headers(hs) \in Answers
  /\ \A h \in Heights \cup {None}, b \in BOOLEAN : BlockMessage(h, b) \in Answers
  /\ \A m \in Answers : /\ m.type \in {"HEADERS", "BLOCK"}
                        /\ m.type = "HEADERS" => m.list \in Seq(Heights)
                        /\ m.type = "BLOCK" => m.height \in Heights \cup {None} /\ m.body \in BOOLEAN
  BY DEF Headers, BlockMessage, Answers

LEMMA TailIs ==
  ASSUME NEW S, NEW s \in Seq(S), s # <<>>
  PROVE  /\ 1 \in DOMAIN s /\ Head(s) = s[1] /\ Head(s) \in S
         /\ Tail(s) \in Seq(S) /\ Len(Tail(s)) = Len(s) - 1
         /\ \A k \in DOMAIN Tail(s) : k + 1 \in DOMAIN s /\ Tail(s)[k] = s[k + 1]
  OBVIOUS

LEMMA AppendIs ==
  ASSUME NEW S, NEW s \in Seq(S), NEW m \in S
  PROVE  /\ Append(s, m) \in Seq(S) /\ Len(Append(s, m)) = Len(s) + 1
         /\ DOMAIN Append(s, m) = 1 .. (Len(s) + 1)
         /\ \A k \in DOMAIN s : Append(s, m)[k] = s[k]
         /\ Append(s, m)[Len(s) + 1] = m
  OBVIOUS

\* A chain that grows keeps the streams good, unless it is the first to be applied
\* while headers are exchanged.
LEMMA StreamKept ==
  ASSUME NEW c \in Seq(Entries), NEW d \in Seq(Entries), Len(d) >= Len(c), NEW a, NEW b,
         a = {} => b = {},
         NEW r \in Seq(Requests), NEW s \in Seq(Answers), GoodStream(r, s, c, a)
  PROVE  GoodStream(r, s, d, b)
  <1>1. /\ d = <<>> => c = <<>>
        /\ c # <<>> => d # <<>>
    OBVIOUS
  <1>2. Len(c) \in Nat /\ Len(d) \in Nat
    OBVIOUS
  <1>3. ASSUME NEW k \in DOMAIN r, r[k].type = "GET_BLOCK"
        PROVE  r[k].height < Len(d)
    <2>1. r[k].height \in Heights /\ r[k].height < Len(c)
      BY <1>3, RequestTypes DEF GoodStream
    <2> QED
      BY <2>1, <1>2 DEF Heights
  <1>4. ASSUME NEW k \in DOMAIN s, s[k].type = "BLOCK"
        PROVE  s[k].height < Len(d)
    <2>1. s[k].height \in Heights \cup {None} /\ s[k].height < Len(c)
      BY <1>4, AnswerTypes DEF GoodStream
    <2> QED
      BY <2>1, <1>2 DEF Heights, None
  <1>5. ASSUME NEW k \in DOMAIN r, r[k].type = "GET_HEADERS"
        PROVE  (r[k].from # None => d # <<>>) /\ Len(r) = 1 /\ s = <<>> /\ b = {}
    BY <1>1, <1>5 DEF GoodStream
  <1>6. ASSUME NEW k \in DOMAIN s, s[k].type = "HEADERS"
        PROVE  /\ d = <<>> /\ s[k].list # <<>> => s[k].list[1] = 0
               /\ Len(s) = 1 /\ r = <<>> /\ b = {}
    BY <1>1, <1>6 DEF GoodStream
  <1> QED
    BY <1>3, <1>4, <1>5, <1>6 DEF GoodStream

LEMMA RequestTaken ==
  ASSUME NEW r \in Seq(Requests), NEW s \in Seq(Answers), NEW c \in Seq(Entries), NEW a,
         r # <<>>, GoodStream(r, s, c, a)
  PROVE  GoodStream(Tail(r), s, c, a)
  <1>1. /\ Tail(r) \in Seq(Requests) /\ Len(Tail(r)) = Len(r) - 1
        /\ \A k \in DOMAIN Tail(r) : k + 1 \in DOMAIN r /\ Tail(r)[k] = r[k + 1]
    BY TailIs
  <1>2. ASSUME NEW k \in DOMAIN Tail(r), Tail(r)[k].type = "GET_HEADERS"
        PROVE  FALSE
    <2>1. k + 1 \in DOMAIN r /\ r[k + 1].type = "GET_HEADERS"
      BY <1>1, <1>2
    <2>2. Len(r) = 1
      BY <2>1 DEF GoodStream
    <2> QED
      BY <1>1, <2>2
  <1>3. \A k \in DOMAIN Tail(r) : Tail(r)[k].type = "GET_BLOCK" => Tail(r)[k].height < Len(c)
    BY <1>1 DEF GoodStream
  <1>4. \A k \in DOMAIN s : s[k].type # "HEADERS"
    BY DEF GoodStream
  <1> QED
    BY <1>2, <1>3, <1>4 DEF GoodStream

LEMMA AnswerTaken ==
  ASSUME NEW r \in Seq(Requests), NEW s \in Seq(Answers), NEW c \in Seq(Entries), NEW a,
         s # <<>>, GoodStream(r, s, c, a)
  PROVE  GoodStream(r, Tail(s), c, a)
  <1>1. /\ Tail(s) \in Seq(Answers) /\ Len(Tail(s)) = Len(s) - 1
        /\ \A k \in DOMAIN Tail(s) : k + 1 \in DOMAIN s /\ Tail(s)[k] = s[k + 1]
    BY TailIs
  <1>2. ASSUME NEW k \in DOMAIN Tail(s), Tail(s)[k].type = "HEADERS"
        PROVE  FALSE
    <2>1. k + 1 \in DOMAIN s /\ s[k + 1].type = "HEADERS"
      BY <1>1, <1>2
    <2>2. Len(s) = 1
      BY <2>1 DEF GoodStream
    <2> QED
      BY <1>1, <2>2
  <1>3. \A k \in DOMAIN Tail(s) : Tail(s)[k].type = "BLOCK" => Tail(s)[k].height < Len(c)
    BY <1>1 DEF GoodStream
  <1>4. \A k \in DOMAIN r : r[k].type # "GET_HEADERS"
    BY DEF GoodStream
  <1> QED
    BY <1>2, <1>3, <1>4 DEF GoodStream

-----------------------------------------------------------------------------
(* Steps preserve the invariant *)

LEMMA SyncInit == Init => SyncInv
  <1> SUFFICES ASSUME Init PROVE SyncInv
    OBVIOUS
  <1>1. TypeOK
    <2>1. 0 \in Heights /\ losses \in 0 .. MaxLosses
      BY SyncAssumption DEF Init, Heights
    <2>2. view \in [Nodes -> Nat]
      <3>1. view \in [Nodes -> InitViews \cup {0}]
        BY Zenon DEF Init
      <3>2. InitViews \cup {0} \subseteq Nat
        BY SyncAssumption
      <3> QED
        BY <3>1, <3>2
    <2>3. chain \in [Nodes -> Seq(Entries)]
      BY DEF Init
    <2>4. /\ request \in [Joiners -> Seq(Requests)] /\ answer \in [Joiners -> Seq(Answers)]
          /\ \A j \in Joiners : DOMAIN answer[j] = {}
      BY DEF Init
    <2>5. /\ utxo \in [Nodes -> SUBSET Outpoints] /\ applied \in [Nodes -> SUBSET Heights]
          /\ tracked \in [Nodes -> SUBSET (1 .. proposed)]
      BY DEF Init
    <2>6. proposed \in Heights /\ asked = {} /\ down = {}
      BY <2>1 DEF Init
    <2> QED
      BY <2>1, <2>2, <2>3, <2>4, <2>5, <2>6 DEF TypeOK
  <1>2. \A n \in Nodes : GoodNode(chain[n], utxo[n], applied[n], view[n], tracked[n])
    <2> TAKE n \in Nodes
    <2>1. chain[n] = <<>> /\ utxo[n] = {} /\ applied[n] = {} /\ tracked[n] = {}
      BY DEF Init
    <2>2. Held(<<>>) = {} /\ Linked(<<>>)
      BY DEF Held, Linked
    <2>3. Spent({}) = {} /\ Paid({}) = {}
      BY DEF Spent, Paid
    <2> QED
      BY <2>1, <2>2, <2>3 DEF GoodNode
  <1>3. StreamsGood
    BY DEF Init, StreamsGood, GoodStream
  <1>4. NewNodesEmpty /\ FounderView
    BY DEF Init, NewNodesEmpty, FounderView, Nodes
  <1> QED
    BY <1>1, <1>2, <1>3, <1>4 DEF SyncInv, NodesGood

\* A step of one node.
LEMMA OneNode ==
  ASSUME NodesGood, NEW n \in Nodes,
         GoodNode(chain'[n], utxo'[n], applied'[n], view'[n], tracked'[n]),
         \A m \in Nodes \ {n} : /\ chain'[m] = chain[m] /\ utxo'[m] = utxo[m]
                                /\ applied'[m] = applied[m] /\ view'[m] = view[m]
                                /\ tracked'[m] = tracked[m]
  PROVE  NodesGood'
  <1> SUFFICES ASSUME NEW m \in Nodes
               PROVE  GoodNode(chain'[m], utxo'[m], applied'[m], view'[m], tracked'[m])
    BY DEF NodesGood
  <1>1. CASE m = n
    BY <1>1
  <1>2. CASE m # n
    <2>1. GoodNode(chain[m], utxo[m], applied[m], view[m], tracked[m])
      BY DEF NodesGood
    <2> QED
      BY <1>2, <2>1
  <1> QED
    BY <1>1, <1>2

\* A step on one stream.
LEMMA OneStream ==
  ASSUME StreamsGood, NEW j \in Joiners,
         GoodStream(request'[j], answer'[j], chain'[j], applied'[j]),
         \A i \in Joiners \ {j} : /\ request'[i] = request[i] /\ answer'[i] = answer[i]
                                  /\ chain'[i] = chain[i] /\ applied'[i] = applied[i]
  PROVE  StreamsGood'
  <1> SUFFICES ASSUME NEW i \in Joiners
               PROVE  GoodStream(request'[i], answer'[i], chain'[i], applied'[i])
    BY DEF StreamsGood
  <1>1. CASE i = j
    BY <1>1
  <1>2. CASE i # j
    <2>1. GoodStream(request[i], answer[i], chain[i], applied[i])
      BY DEF StreamsGood
    <2> QED
      BY <1>2, <2>1
  <1> QED
    BY <1>1, <1>2

LEMMA AddBlockIs ==
  ASSUME TypeOK, NEW n \in Nodes, NEW h \in Heights, AddBlockToUtxo(n, h)
  PROVE  /\ utxo' \in [Nodes -> SUBSET Outpoints] /\ applied' \in [Nodes -> SUBSET Heights]
         /\ utxo'[n] = (utxo[n] \cup Creates[h]) \ Spends[h]
         /\ applied'[n] = applied[n] \cup {h}
         /\ \A m \in Nodes \ {n} : utxo'[m] = utxo[m] /\ applied'[m] = applied[m]
  <1>1. Creates[h] \subseteq Outpoints
    BY DEF Outpoints
  <1> QED
    BY <1>1 DEF TypeOK, AddBlockToUtxo

\* What the invariant says of one node and of one stream.
LEMMA Local ==
  ASSUME SyncInv
  PROVE  /\ \A n \in Nodes :
              /\ GoodNode(chain[n], utxo[n], applied[n], view[n], tracked[n])
              /\ chain[n] \in Seq(Entries) /\ utxo[n] \in SUBSET Outpoints
              /\ applied[n] \in SUBSET Heights /\ view[n] \in Nat
              /\ tracked[n] \in SUBSET (Heights \ {0}) /\ tracked[n] \in SUBSET (1 .. proposed)
         /\ \A j \in Joiners :
              /\ GoodStream(request[j], answer[j], chain[j], applied[j])
              /\ request[j] \in Seq(Requests) /\ answer[j] \in Seq(Answers)
              /\ j \in Nodes /\ j # founder /\ Asks[j] \in Nodes
         /\ founder \in Nodes /\ proposed \in Heights
  <1>1. 1 .. proposed \subseteq Heights \ {0}
    BY SyncAssumption DEF SyncInv, TypeOK, Heights
  <1>2. \A j \in Joiners : j \in Nodes /\ j # founder /\ Asks[j] \in Nodes
    BY SyncAssumption DEF Nodes
  <1>3. founder \in Nodes
    BY DEF Nodes
  <1>4. \A n \in Nodes : tracked[n] \in SUBSET (1 .. proposed)
    BY DEF SyncInv, TypeOK
  <1>5. \A n \in Nodes : /\ GoodNode(chain[n], utxo[n], applied[n], view[n], tracked[n])
                         /\ chain[n] \in Seq(Entries) /\ utxo[n] \in SUBSET Outpoints
                         /\ applied[n] \in SUBSET Heights /\ view[n] \in Nat
    BY DEF SyncInv, TypeOK, NodesGood
  <1>6. \A j \in Joiners : /\ GoodStream(request[j], answer[j], chain[j], applied[j])
                           /\ request[j] \in Seq(Requests) /\ answer[j] \in Seq(Answers)
    BY DEF SyncInv, TypeOK, StreamsGood
  <1>7. proposed \in Heights
    BY DEF SyncInv, TypeOK
  <1> QED
    BY <1>1, <1>2, <1>3, <1>4, <1>5, <1>6, <1>7

LEMMA SyncFound == SyncInv /\ Found => SyncInv'
  <1> SUFFICES ASSUME SyncInv, Found PROVE SyncInv'
    OBVIOUS
  <1> USE Local
  <1>1. /\ chain[founder] = <<>> /\ 0 \in Heights
        /\ chain' = [chain EXCEPT ![founder] = <<FullBlock(0)>>]
        /\ AddBlockToUtxo(founder, 0)
        /\ UNCHANGED <<view, tracked, proposed, asked, down, request, answer, losses>>
    BY SyncAssumption DEF Found, consensusVars, streamVars, Heights
  <1>2. TypeOK
    BY DEF SyncInv
  <1>3. /\ chain'[founder] = <<FullBlock(0)>>
        /\ \A n \in Nodes \ {founder} : chain'[n] = chain[n]
        /\ chain' \in [Nodes -> Seq(Entries)]
    <2>1. <<FullBlock(0)>> \in Seq(Entries)
      BY <1>1 DEF FullBlock, Entries
    <2> QED
      BY <1>1, <1>2, <2>1 DEF TypeOK
  <1>4. TypeOK'
    BY <1>1, <1>2, <1>3, AddBlockIs DEF TypeOK
  <1>5. NodesGood'
    <2>1. GoodNode(chain'[founder], utxo'[founder], applied'[founder], view'[founder],
                   tracked'[founder])
      <3>1. GoodNode(<<>>, utxo[founder], applied[founder], view[founder], tracked[founder])
        BY <1>1
      <3>2. GoodNode(<<FullBlock(0)>>, (utxo[founder] \cup Creates[0]) \ Spends[0],
                     applied[founder] \cup {0}, view[founder], tracked[founder])
        BY <3>1, Founds
      <3> QED
        <4>1. /\ utxo'[founder] = (utxo[founder] \cup Creates[0]) \ Spends[0]
              /\ applied'[founder] = applied[founder] \cup {0}
          BY <1>1, <1>2, AddBlockIs
        <4>2. view' = view /\ tracked' = tracked
          BY <1>1
        <4> QED
          BY <1>3, <3>2, <4>1, <4>2
    <2>2. NodesGood
      BY DEF SyncInv
    <2> QED
      BY <1>1, <1>2, <1>3, <2>1, <2>2, AddBlockIs, OneNode
  <1>6. StreamsGood'
    <2>1. \A j \in Joiners : chain'[j] = chain[j] /\ applied'[j] = applied[j]
      BY <1>1, <1>2, <1>3, AddBlockIs
    <2> QED
      BY <1>1, <2>1 DEF StreamsGood, SyncInv
  <1>7. NewNodesEmpty'
    BY <1>1, <1>3 DEF NewNodesEmpty, SyncInv
  <1>8. FounderView'
    BY <1>1, <1>3 DEF FounderView, SyncInv
  <1> QED
    BY <1>4, <1>5, <1>6, <1>7, <1>8 DEF SyncInv

LEMMA SyncPropose == SyncInv /\ Propose => SyncInv'
  <1> SUFFICES ASSUME SyncInv, Propose PROVE SyncInv'
    OBVIOUS
  <1> USE Local
  <1>1. /\ proposed < MaxHeight /\ tracked[founder] = {}
        /\ IsBlockValid(founder, proposed + 1, TRUE)
        /\ proposed' = proposed + 1
        /\ tracked' = [tracked EXCEPT ![founder] = @ \cup {proposed + 1}]
        /\ UNCHANGED <<chain, utxo, applied, view, asked, down, request, answer, losses>>
    BY DEF Propose, streamVars
  <1>2. TypeOK
    BY DEF SyncInv
  <1>3. proposed \in Nat /\ proposed' \in Heights /\ 1 .. proposed \subseteq 1 .. proposed'
    BY <1>1, SyncAssumption DEF Heights
  <1>4. /\ tracked'[founder] = {proposed + 1}
        /\ \A n \in Nodes \ {founder} : tracked'[n] = tracked[n]
        /\ tracked' \in [Nodes -> SUBSET (1 .. proposed')]
    BY <1>1, <1>2, <1>3 DEF TypeOK
  <1>5. TypeOK'
    BY <1>1, <1>2, <1>3, <1>4 DEF TypeOK
  <1>6. NodesGood'
    <2> DEFINE c == chain[founder]
    <2>1. c # <<>> /\ LastHeight(c) = proposed /\ Spends[proposed + 1] \subseteq utxo[founder]
      BY <1>1, <1>3 DEF IsBlockValid, VerifyBlockTransactions
    <2>2. LastHeight(c) = Len(c) - 1
      BY <2>1 DEF GoodNode, Linked, LastHeight
    <2>3. view[founder] = proposed
      BY <2>1, <2>2 DEF FounderView, SyncInv
    <2>4. GoodNode(chain'[founder], utxo'[founder], applied'[founder], view'[founder],
                   tracked'[founder])
      <3>1. GoodNode(c, utxo[founder], applied[founder], view[founder], {proposed + 1})
        <4>1. GoodNode(c, utxo[founder], applied[founder], view[founder], tracked[founder])
          OBVIOUS
        <4>2. proposed + 1 - 1 = proposed
          BY <1>3
        <4> HIDE DEF c
        <4> QED
          BY <2>1, <2>3, <4>1, <4>2 DEF GoodNode
      <3> QED
        BY <1>1, <1>4, <3>1
    <2>5. NodesGood
      BY DEF SyncInv
    <2> QED
      BY <1>1, <1>4, <2>4, <2>5, OneNode
  <1>7. StreamsGood' /\ NewNodesEmpty' /\ FounderView'
    BY <1>1 DEF StreamsGood, NewNodesEmpty, FounderView, SyncInv
  <1> QED
    BY <1>5, <1>6, <1>7 DEF SyncInv

Batches(s) == \A k \in DOMAIN s : s[k].type = "HEADERS" => Len(s[k].list) <= MaxHeaders

\* A step that only handles, sends or loses messages of one stream.
LEMMA StreamStep ==
  ASSUME SyncInv, NEW j \in Joiners, NEW r \in Seq(Requests), NEW s \in Seq(Answers),
         UNCHANGED <<chain, utxo, applied, view, tracked, proposed, down>>,
         losses' \in 0 .. MaxLosses, asked' = asked \cup {j},
         request' = [request EXCEPT ![j] = r], answer' = [answer EXCEPT ![j] = s],
         Batches(s), GoodStream(r, s, chain[j], applied[j])
  PROVE  SyncInv'
  <1> USE Local
  <1>1. TypeOK
    BY DEF SyncInv
  <1>2. /\ request'[j] = r /\ answer'[j] = s
        /\ \A i \in Joiners \ {j} : request'[i] = request[i] /\ answer'[i] = answer[i]
        /\ request' \in [Joiners -> Seq(Requests)] /\ answer' \in [Joiners -> Seq(Answers)]
    BY <1>1 DEF TypeOK
  <1>3. TypeOK'
    <2>1. ASSUME NEW i \in Joiners
          PROVE  Batches(answer'[i])
      <3>1. CASE i = j
        BY <1>2, <3>1
      <3>2. CASE i # j
        BY <1>1, <1>2, <3>2 DEF TypeOK, Batches
      <3> QED
        BY <3>1, <3>2
    <2>2. asked' \subseteq Joiners
      BY <1>1 DEF TypeOK
    <2> QED
      BY <1>1, <1>2, <2>1, <2>2 DEF TypeOK, Batches
  <1>4. NodesGood'
    BY DEF NodesGood, SyncInv
  <1>5. StreamsGood'
    BY <1>2, OneStream DEF SyncInv
  <1>6. NewNodesEmpty' /\ FounderView'
    BY <1>2 DEF NewNodesEmpty, FounderView, SyncInv
  <1> QED
    BY <1>3, <1>4, <1>5, <1>6 DEF SyncInv

\* A node with messages under way has asked; its batches are within MAX_HEADERS.
LEMMA HasAsked ==
  ASSUME SyncInv, NEW j \in Joiners
  PROVE  /\ request[j] # <<>> \/ answer[j] # <<>> => asked = asked \cup {j}
         /\ Batches(answer[j])
         /\ request = [request EXCEPT ![j] = request[j]]
         /\ answer = [answer EXCEPT ![j] = answer[j]]
         /\ losses \in 0 .. MaxLosses
  BY DEF SyncInv, TypeOK, NewNodesEmpty, Batches

LEMMA SyncAsk ==
  ASSUME SyncInv, NEW j \in Joiners, Ask(j)
  PROVE  SyncInv'
  <1> USE Local
  <1> DEFINE m == GetHeaders(None)
             r == Append(request[j], m)
  <1>1. /\ j \notin asked /\ asked' = asked \cup {j}
        /\ request' = [request EXCEPT ![j] = r]
        /\ UNCHANGED <<chain, utxo, applied, view, tracked, proposed, down, answer, losses>>
    BY DEF Ask, consensusVars
  <1>2. request[j] = <<>> /\ answer[j] = <<>> /\ chain[j] = <<>>
    BY <1>1 DEF SyncInv, NewNodesEmpty
  <1>3. applied[j] = {}
    BY <1>2 DEF GoodNode, Held
  <1>4. m \in Requests /\ m.type = "GET_HEADERS" /\ m.from = None
    BY RequestTypes DEF GetHeaders
  <1> HIDE DEF m
  <1>5. r \in Seq(Requests) /\ Len(r) = 1 /\ r[1] = m /\ DOMAIN r = {1}
    BY <1>2, <1>4
  <1> HIDE DEF r
  <1>6. GoodStream(r, answer[j], chain[j], applied[j])
    BY <1>2, <1>3, <1>4, <1>5 DEF GoodStream
  <1> QED
    BY <1>1, <1>5, <1>6, HasAsked, StreamStep

LEMMA SyncOnGetHeaders ==
  ASSUME SyncInv, NEW j \in Joiners, OnGetHeaders(j)
  PROVE  SyncInv'
  <1> USE Local
  <1> DEFINE c == chain[Asks[j]]
             from == request[j][1].from
             i == StartAfterFork(c, from)
             hs == GetHeadersFrom(c, i)
             m == Headers(hs)
             r == Tail(request[j])
             s == Append(answer[j], m)
  <1>1. /\ request[j] # <<>> /\ Head(request[j]).type = "GET_HEADERS"
        /\ request' = [request EXCEPT ![j] = r]
        /\ answer' = [answer EXCEPT ![j] = s]
        /\ UNCHANGED <<chain, utxo, applied, view, tracked, proposed, asked, down, losses>>
    BY DEF OnGetHeaders, Requested, Reply, consensusVars
  <1>2. /\ 1 \in DOMAIN request[j] /\ request[j][1] \in Requests
        /\ request[j][1].type = "GET_HEADERS"
    BY <1>1, TailIs
  <1>3. from \in Heights \cup {None}
    BY <1>2, RequestTypes
  <1>4. /\ from # None => chain[j] # <<>>
        /\ Len(request[j]) = 1 /\ answer[j] = <<>> /\ applied[j] = {}
    BY <1>2 DEF GoodStream
  <1>5. r = <<>> /\ r \in Seq(Requests)
    BY <1>1, <1>4, TailIs
  <1>6. c \in Seq(Entries) /\ Linked(c)
    BY DEF GoodNode
  <1> HIDE DEF c, from, r
  <1>7. i \in 1 .. (Len(c) + 1)
    BY <1>6, IndexOfIs DEF StartAfterFork
  <1>8. /\ hs \in Seq(Heights) /\ Len(hs) <= MaxHeaders
        /\ \A k \in DOMAIN hs : i + k - 1 \in DOMAIN c /\ hs[k] = c[i + k - 1].height
    BY <1>6, <1>7, GetHeadersFromIs
  <1>9. chain[j] = <<>> /\ hs # <<>> => hs[1] = 0
    <2> SUFFICES ASSUME chain[j] = <<>>, hs # <<>>
                 PROVE  hs[1] = 0
      OBVIOUS
    <2>1. from = None
      BY <1>4
    <2>2. IndexOf(c, from) = 0
      <3> SUFFICES ASSUME IndexOf(c, from) # 0
                   PROVE  FALSE
        OBVIOUS
      <3>1. IndexOf(c, from) \in DOMAIN c /\ c[IndexOf(c, from)].height = -1
        BY <1>6, <2>1, IndexOfIs DEF None
      <3> QED
        BY <1>6, <3>1 DEF Linked
    <2>3. i = 1
      BY <2>2 DEF StartAfterFork
    <2>4. 1 \in DOMAIN hs
      BY <1>8
    <2>5. 1 \in DOMAIN c /\ hs[1] = c[1].height
      BY <1>8, <2>3, <2>4
    <2> QED
      BY <1>6, <2>5 DEF Linked
  <1> HIDE DEF i, hs
  <1>10. m \in Answers /\ m.type = "HEADERS" /\ m.list = hs
    BY <1>8, AnswerTypes DEF Headers
  <1> HIDE DEF m
  <1>11. s \in Seq(Answers) /\ Len(s) = 1 /\ s[1] = m /\ DOMAIN s = {1}
    BY <1>4, <1>10
  <1> HIDE DEF s
  <1>12. GoodStream(r, s, chain[j], applied[j])
    BY <1>4, <1>5, <1>9, <1>10, <1>11 DEF GoodStream
  <1>13. Batches(s)
    BY <1>8, <1>10, <1>11 DEF Batches
  <1> QED
    BY <1>1, <1>5, <1>11, <1>12, <1>13, HasAsked, StreamStep

LEMMA SyncOnGetBlock ==
  ASSUME SyncInv, NEW j \in Joiners, OnGetBlock(j)
  PROVE  SyncInv'
  <1> USE Local
  <1> DEFINE c == chain[Asks[j]]
             h == request[j][1].height
             i == IndexOf(c, h)
             m == IF i = 0 THEN BlockMessage(None, FALSE) ELSE BlockMessage(h, c[i].body)
             r == Tail(request[j])
             s == Append(answer[j], m)
  <1>1. /\ request[j] # <<>> /\ Head(request[j]).type = "GET_BLOCK"
        /\ request' = [request EXCEPT ![j] = r]
        /\ answer' = [answer EXCEPT ![j] = s]
        /\ UNCHANGED <<chain, utxo, applied, view, tracked, proposed, asked, down, losses>>
    BY DEF OnGetBlock, Requested, Reply, consensusVars
  <1>2. /\ 1 \in DOMAIN request[j] /\ request[j][1] \in Requests
        /\ request[j][1].type = "GET_BLOCK" /\ r \in Seq(Requests)
    BY <1>1, TailIs
  <1>3. h \in Heights /\ h < Len(chain[j])
    BY <1>2, RequestTypes DEF GoodStream
  <1>4. GoodStream(r, answer[j], chain[j], applied[j])
    BY <1>1, RequestTaken
  <1>5. \A k \in DOMAIN answer[j] : answer[j][k].type # "HEADERS"
    BY <1>1 DEF GoodStream
  <1>6. \A k \in DOMAIN r : r[k].type # "GET_HEADERS"
    BY <1>1, <1>2, TailIs DEF GoodStream
  <1>7. /\ m \in Answers /\ m.type = "BLOCK"
        /\ m.height = None \/ m.height = h
    <2>1. i # 0 => c[i].body \in BOOLEAN
      <3>1. i # 0 => c[i] \in Entries
        BY IndexOfIs
      <3> QED
        BY <3>1 DEF Entries
    <2> QED
      BY <1>3, <2>1, AnswerTypes DEF BlockMessage
  <1> HIDE DEF c, h, i, m, r
  <1>8. m.height < Len(chain[j])
    BY <1>3, <1>7 DEF None
  <1>9. /\ s \in Seq(Answers) /\ DOMAIN s = 1 .. (Len(answer[j]) + 1)
        /\ \A k \in DOMAIN answer[j] : s[k] = answer[j][k]
        /\ s[Len(answer[j]) + 1] = m
    BY <1>7, AppendIs
  <1> HIDE DEF s
  <1>10. \A k \in DOMAIN s : k \in DOMAIN answer[j] \/ s[k] = m
    BY <1>9
  <1>11. \A k \in DOMAIN s : s[k].type # "HEADERS"
    BY <1>5, <1>7, <1>9, <1>10
  <1>12. \A k \in DOMAIN s : s[k].type = "BLOCK" => s[k].height < Len(chain[j])
    BY <1>4, <1>8, <1>9, <1>10 DEF GoodStream
  <1>13. GoodStream(r, s, chain[j], applied[j])
    BY <1>4, <1>6, <1>11, <1>12 DEF GoodStream
  <1>14. Batches(s)
    BY <1>11 DEF Batches
  <1> QED
    BY <1>1, <1>2, <1>9, <1>13, <1>14, HasAsked, StreamStep

LEMMA SyncLose ==
  ASSUME SyncInv, NEW j \in Joiners, LoseRequest(j) \/ LoseAnswer(j)
  PROVE  SyncInv'
  <1> USE Local
  <1>1. /\ losses' \in 0 .. MaxLosses
        /\ UNCHANGED <<chain, utxo, applied, view, tracked, proposed, asked, down>>
    BY HasAsked, SyncAssumption DEF LoseRequest, LoseAnswer, Lost, consensusVars
  <1>2. CASE LoseRequest(j)
    <2>1. /\ request[j] # <<>> /\ request' = [request EXCEPT ![j] = Tail(request[j])]
          /\ answer' = answer
      BY <1>2 DEF LoseRequest
    <2>2. Tail(request[j]) \in Seq(Requests)
      BY <2>1, TailIs
    <2>3. GoodStream(Tail(request[j]), answer[j], chain[j], applied[j])
      BY <2>1, RequestTaken
    <2> QED
      BY <1>1, <2>1, <2>2, <2>3, HasAsked, StreamStep
  <1>3. CASE LoseAnswer(j)
    <2>1. /\ answer[j] # <<>> /\ answer' = [answer EXCEPT ![j] = Tail(answer[j])]
          /\ request' = request
      BY <1>3 DEF LoseAnswer
    <2>2. /\ Tail(answer[j]) \in Seq(Answers)
          /\ \A k \in DOMAIN Tail(answer[j]) :
                k + 1 \in DOMAIN answer[j] /\ Tail(answer[j])[k] = answer[j][k + 1]
      BY <2>1, TailIs
    <2>3. GoodStream(request[j], Tail(answer[j]), chain[j], applied[j])
      BY <2>1, AnswerTaken
    <2>4. Batches(Tail(answer[j]))
      BY <2>2, HasAsked DEF Batches
    <2> QED
      BY <1>1, <2>1, <2>2, <2>3, <2>4, HasAsked, StreamStep
  <1> QED
    BY <1>2, <1>3

\* What onHeaders asks for: blocks whose header is on the chain.
LEMMA WantedIs ==
  ASSUME NEW c \in Seq(Entries), Linked(c)
  PROVE  /\ GetAppendedHeaders(c) \in Seq(Heights)
         /\ \A k \in DOMAIN GetAppendedHeaders(c) : GetAppendedHeaders(c)[k] < Len(c)
  <1> DEFINE f == FirstAwaited(c)
  <1>1. CASE f = 0
    BY <1>1 DEF GetAppendedHeaders
  <1>2. CASE f # 0
    <2>1. f \in 1 .. (Len(c) + 1)
      BY <1>2, FirstAwaitedIs
    <2>2. GetAppendedHeaders(c) = GetHeadersFrom(c, f)
      BY <1>2 DEF GetAppendedHeaders
    <2>3. /\ GetHeadersFrom(c, f) \in Seq(Heights)
          /\ \A k \in DOMAIN GetHeadersFrom(c, f) :
                f + k - 1 \in DOMAIN c /\ GetHeadersFrom(c, f)[k] = c[f + k - 1].height
      BY <2>1, GetHeadersFromIs
    <2>4. \A x \in DOMAIN c : c[x].height < Len(c)
      BY DEF Linked
    <2> HIDE DEF f
    <2> QED
      BY <2>2, <2>3, <2>4
  <1> QED
    BY <1>1, <1>2

LEMMA SyncOnHeaders ==
  ASSUME SyncInv, NEW j \in Joiners, OnHeaders(j)
  PROVE  SyncInv'
  <1> USE Local
  <1> DEFINE hs == answer[j][1].list
             c == AppendHeaders(chain[j], hs)
             w == GetAppendedHeaders(c)
             b == [k \in DOMAIN w |-> GetBlock(w[k])]
             x == IF Len(hs) = MaxHeaders THEN <<GetHeaders(NextLocator(hs))>> ELSE b
  <1>1. /\ answer[j] # <<>> /\ Head(answer[j]).type = "HEADERS" /\ Head(answer[j]) = answer[j][1]
        /\ chain' = [chain EXCEPT ![j] = c]
        /\ request' = [request EXCEPT ![j] = request[j] \o x]
        /\ answer' = [answer EXCEPT ![j] = Tail(answer[j])]
        /\ UNCHANGED <<utxo, applied, view, tracked, proposed, asked, down, losses>>
    <2>1. answer[j] # <<>>
      BY DEF OnHeaders, Answered
    <2>2. Head(answer[j]) = answer[j][1]
      BY <2>1
    <2> QED
      BY <2>1, <2>2 DEF OnHeaders, Answered, consensusVars
  <1>2. /\ 1 \in DOMAIN answer[j] /\ answer[j][1] \in Answers
        /\ answer[j][1].type = "HEADERS"
    BY <1>1, TailIs
  <1>3. /\ chain[j] = <<>> /\ hs # <<>> => hs[1] = 0
        /\ Len(answer[j]) = 1 /\ request[j] = <<>> /\ applied[j] = {}
    BY <1>2 DEF GoodStream
  <1>4. hs \in Seq(Heights)
    BY <1>2, AnswerTypes
  <1>5. Tail(answer[j]) = <<>>
    BY <1>1, <1>3, TailIs
  <1>6. Linked(chain[j])
    BY DEF GoodNode
  <1> HIDE DEF hs
  <1>7. /\ c \in Seq(Entries) /\ Linked(c) /\ Len(c) >= Len(chain[j])
        /\ \A i \in DOMAIN chain[j] : c[i] = chain[j][i]
        /\ \A i \in DOMAIN c \ DOMAIN chain[j] : c[i].awaited /\ ~c[i].body
        /\ hs # <<>> => c # <<>>
    BY <1>3, <1>4, <1>6, AppendHeadersIs
  <1> HIDE DEF c
  <1>8. w \in Seq(Heights) /\ \A k \in DOMAIN w : w[k] < Len(c)
    BY <1>7, WantedIs
  <1> HIDE DEF w
  <1>9. /\ x \in Seq(Requests)
        /\ \A k \in DOMAIN x : x[k].type = "GET_HEADERS" => Len(x) = 1 /\ c # <<>>
        /\ \A k \in DOMAIN x : x[k].type = "GET_BLOCK" => x[k].height < Len(c)
    <2>1. CASE Len(hs) = MaxHeaders
      <3> DEFINE m == GetHeaders(NextLocator(hs))
      <3>1. Len(hs) >= 1 /\ hs # <<>>
        BY <2>1, <1>4, SyncAssumption
      <3>2. NextLocator(hs) \in Heights
        BY <1>4, <3>1 DEF NextLocator
      <3>3. m \in Requests /\ m.type = "GET_HEADERS"
        BY <3>2, RequestTypes DEF GetHeaders
      <3>4. x = <<m>>
        BY <2>1
      <3> HIDE DEF m, x
      <3>5. x \in Seq(Requests) /\ Len(x) = 1 /\ DOMAIN x = {1} /\ x[1] = m
        BY <3>3, <3>4
      <3> QED
        BY <1>7, <3>1, <3>3, <3>5
    <2>2. CASE Len(hs) # MaxHeaders
      <3>1. \A k \in DOMAIN w : /\ GetBlock(w[k]) \in Requests
                                /\ GetBlock(w[k]).type = "GET_BLOCK"
                                /\ GetBlock(w[k]).height = w[k]
        BY <1>8, RequestTypes DEF GetBlock
      <3>2. b \in Seq(Requests) /\ DOMAIN b = DOMAIN w /\ \A k \in DOMAIN w : b[k] = GetBlock(w[k])
        <4>1. DOMAIN w = 1 .. Len(w) /\ Len(w) \in Nat
          BY <1>8
        <4>2. b \in [1 .. Len(w) -> Requests]
          BY <3>1, <4>1
        <4> HIDE DEF b
        <4>3. b \in Seq(Requests)
          BY <4>1, <4>2
        <4> QED
          BY <4>3 DEF b
      <3>3. x = b
        BY <2>2
      <3> HIDE DEF b, x
      <3> QED
        BY <1>8, <3>1, <3>2, <3>3
    <2> QED
      BY <2>1, <2>2
  <1> HIDE DEF x
  <1>10. request[j] \o x = x
    BY <1>3, <1>9
  <1>11. TypeOK
    BY DEF SyncInv
  <1>12. /\ request'[j] = x /\ answer'[j] = <<>> /\ chain'[j] = c
         /\ \A n \in Nodes \ {j} : chain'[n] = chain[n]
         /\ \A i \in Joiners \ {j} : request'[i] = request[i] /\ answer'[i] = answer[i]
         /\ request' \in [Joiners -> Seq(Requests)] /\ answer' \in [Joiners -> Seq(Answers)]
         /\ chain' \in [Nodes -> Seq(Entries)]
    BY <1>1, <1>5, <1>7, <1>9, <1>10, <1>11, SMTT(30) DEF TypeOK
  <1>13. TypeOK'
    <2>1. ASSUME NEW i \in Joiners
          PROVE  Batches(answer'[i])
      <3>1. CASE i = j
        BY <1>12, <3>1 DEF Batches
      <3>2. CASE i # j
        BY <1>12, <3>2, HasAsked
      <3> QED
        BY <3>1, <3>2
    <2> QED
      BY <1>1, <1>11, <1>12, <2>1 DEF TypeOK, Batches
  <1>14. NodesGood'
    <2>1. GoodNode(chain[j], utxo[j], {}, view[j], tracked[j])
      BY <1>3
    <2>2. GoodNode(c, utxo[j], {}, view[j], tracked[j])
      BY <1>7, <2>1, GetsHeaders
    <2>3. GoodNode(chain'[j], utxo'[j], applied'[j], view'[j], tracked'[j])
      BY <1>1, <1>3, <1>12, <2>2
    <2> QED
      BY <1>1, <1>12, <2>3, OneNode DEF SyncInv
  <1>15. StreamsGood'
    <2>1. GoodStream(x, <<>>, c, applied[j])
      BY <1>3, <1>9 DEF GoodStream
    <2>2. GoodStream(request'[j], answer'[j], chain'[j], applied'[j])
      BY <1>1, <1>12, <2>1
    <2> QED
      BY <1>1, <1>12, <2>2, OneStream DEF SyncInv
  <1>16. NewNodesEmpty'
    <2>1. j \in asked
      BY <1>1, HasAsked
    <2> QED
      BY <1>1, <1>12, <2>1 DEF NewNodesEmpty, SyncInv
  <1>17. FounderView'
    BY <1>1, <1>12 DEF FounderView, SyncInv
  <1> QED
    BY <1>13, <1>14, <1>15, <1>16, <1>17 DEF SyncInv

LEMMA SyncOnBlock ==
  ASSUME SyncInv, NEW j \in Joiners, OnBlock(j)
  PROVE  SyncInv'
  <1> USE Local
  <1> DEFINE m == answer[j][1]
             h == m.height
             s == Tail(answer[j])
  <1>1. /\ answer[j] # <<>> /\ Head(answer[j]).type = "BLOCK" /\ Head(answer[j]) = m
        /\ answer' = [answer EXCEPT ![j] = s]
        /\ UNCHANGED <<request, view, tracked, proposed, asked, down, losses>>
        /\ IF h = None THEN UNCHANGED <<chain, utxo, applied>> ELSE TakeBlock(j, h, m.body)
    <2>1. answer[j] # <<>>
      BY DEF OnBlock, Answered
    <2>2. Head(answer[j]) = m
      BY <2>1
    <2> QED
      BY <2>1, <2>2 DEF OnBlock, Answered, consensusVars
  <1>2. /\ 1 \in DOMAIN answer[j] /\ m \in Answers /\ m.type = "BLOCK"
        /\ s \in Seq(Answers)
        /\ \A k \in DOMAIN s : k + 1 \in DOMAIN answer[j] /\ s[k] = answer[j][k + 1]
    BY <1>1, TailIs
  <1>3. h \in Heights \cup {None} /\ m.body \in BOOLEAN /\ h < Len(chain[j])
    BY <1>2, AnswerTypes DEF GoodStream
  <1>4. GoodStream(request[j], s, chain[j], applied[j])
    BY <1>1, AnswerTaken
  <1>5. Batches(s)
    BY <1>2, HasAsked DEF Batches
  <1>6. TypeOK
    BY DEF SyncInv
  <1> HIDE DEF m, s
  <1>7. CASE h # None /\ Completes(j, h, m.body)
    <2> DEFINE c == chain[j]
               f == FirstAwaited(c)
    <2>1. /\ f # 0 /\ CalculatedHash(h, m.body) = HeaderHash(c[f].height)
          /\ h \in Heights
      BY <1>3, <1>7 DEF Completes
    <2>2. /\ h = 0 /\ m.body = TRUE /\ f = 1 /\ applied[j] = {} /\ 1 \in DOMAIN c
          /\ GoodNode([c EXCEPT ![1] = FullBlock(0)],
                      (utxo[j] \cup Creates[0]) \ Spends[0], applied[j] \cup {0}, view[j], tracked[j])
      <3>1. /\ c \in Seq(Entries) /\ applied[j] \in SUBSET Heights
            /\ tracked[j] \in SUBSET (Heights \ {0}) /\ m.body \in BOOLEAN
            /\ GoodNode(c, utxo[j], applied[j], view[j], tracked[j])
        BY <1>3
      <3> HIDE DEF c, h
      <3> QED
        BY <2>1, <3>1, OnlyGenesisCompletes
    <2> DEFINE d == [c EXCEPT ![1] = FullBlock(0)]
    <2>3. chain' = [chain EXCEPT ![j] = d] /\ AddBlockToUtxo(j, 0)
      BY <1>1, <1>7, <2>2 DEF TakeBlock, ChainWith, FullBlock
    <2>4. d \in Seq(Entries) /\ Len(d) = Len(c)
      <3>1. FullBlock(0) \in Entries
        BY <2>1, <2>2 DEF FullBlock, Entries
      <3> QED
        BY <2>2, <3>1
    <2> HIDE DEF d
    <2>5. /\ chain'[j] = d /\ \A n \in Nodes \ {j} : chain'[n] = chain[n]
          /\ answer'[j] = s /\ \A i \in Joiners \ {j} : answer'[i] = answer[i]
          /\ chain' \in [Nodes -> Seq(Entries)] /\ answer' \in [Joiners -> Seq(Answers)]
      BY <1>1, <1>2, <1>6, <2>3, <2>4 DEF TypeOK
    <2>6. /\ utxo' \in [Nodes -> SUBSET Outpoints] /\ applied' \in [Nodes -> SUBSET Heights]
          /\ utxo'[j] = (utxo[j] \cup Creates[0]) \ Spends[0]
          /\ applied'[j] = applied[j] \cup {0}
          /\ \A n \in Nodes \ {j} : utxo'[n] = utxo[n] /\ applied'[n] = applied[n]
      BY <1>6, <2>1, <2>2, <2>3, AddBlockIs
    <2>7. TypeOK'
      <3>1. ASSUME NEW i \in Joiners
            PROVE  Batches(answer'[i])
        <4>1. CASE i = j
          BY <1>5, <2>5, <4>1
        <4>2. CASE i # j
          BY <2>5, <4>2, HasAsked
        <4> QED
          BY <4>1, <4>2
      <3> QED
        BY <1>1, <1>6, <2>5, <2>6, <3>1 DEF TypeOK, Batches
    <2>8. NodesGood'
      <3>1. GoodNode(chain'[j], utxo'[j], applied'[j], view'[j], tracked'[j])
        BY <1>1, <2>2, <2>5, <2>6 DEF d
      <3> QED
        BY <1>1, <2>5, <2>6, <3>1, OneNode DEF SyncInv
    <2>9. StreamsGood'
      <3>1. /\ \A k \in DOMAIN request[j] : request[j][k].type # "GET_HEADERS"
            /\ \A k \in DOMAIN s : s[k].type # "HEADERS"
        <4>1. \A k \in DOMAIN request[j] : request[j][k].type # "GET_HEADERS"
          BY <1>1 DEF GoodStream
        <4>2. \A k \in DOMAIN answer[j] : answer[j][k].type # "HEADERS"
          BY <1>2 DEF GoodStream, m
        <4> QED
          BY <1>2, <4>1, <4>2
      <3>2. GoodStream(request[j], s, d, applied[j])
        <4>1. /\ chain[j] \in Seq(Entries) /\ d \in Seq(Entries) /\ Len(d) >= Len(chain[j])
              /\ request[j] \in Seq(Requests) /\ s \in Seq(Answers)
          BY <1>2, <2>4
        <4> QED
          BY <1>4, <4>1, StreamKept
      <3>3. GoodStream(request[j], s, d, applied'[j])
        BY <3>1, <3>2 DEF GoodStream
      <3> QED
        BY <1>1, <2>5, <2>6, <3>3, OneStream DEF SyncInv
    <2>10. NewNodesEmpty'
      <3>1. j \in asked
        BY <1>1, HasAsked
      <3> QED
        BY <1>1, <2>5, <3>1 DEF NewNodesEmpty, SyncInv
    <2>11. FounderView'
      BY <1>1, <2>5 DEF FounderView, SyncInv
    <2> QED
      BY <2>7, <2>8, <2>9, <2>10, <2>11 DEF SyncInv
  <1>8. CASE ~(h # None /\ Completes(j, h, m.body))
    <2>1. UNCHANGED <<chain, utxo, applied>>
      <3>1. CASE h = None
        BY <1>1, <3>1
      <3>2. CASE h # None
        <4>1. ~IsBlockValid(j, h, m.body)
          <5> SUFFICES ASSUME chain[j] # <<>>, LastHeight(chain[j]) = h - 1
                       PROVE  FALSE
            BY DEF IsBlockValid
          <5>1. LastHeight(chain[j]) = Len(chain[j]) - 1 /\ Len(chain[j]) \in Nat
            BY DEF GoodNode, Linked, LastHeight
          <5>2. h \in Nat
            BY <1>3, <3>2 DEF Heights
          <5> QED
            BY <1>3, <5>1, <5>2
        <4>2. ~Completes(j, h, m.body)
          BY <1>8, <3>2
        <4>3. TakeBlock(j, h, m.body)
          BY <1>1, <3>2
        <4>4. chain' = [chain EXCEPT ![j] = chain[j]] /\ UNCHANGED <<utxo, applied>>
          BY <4>1, <4>2, <4>3 DEF TakeBlock, ChainWith
        <4> QED
          BY <4>4, <1>6 DEF TypeOK
      <3> QED
        BY <3>1, <3>2
    <2>2. /\ request' = [request EXCEPT ![j] = request[j]] /\ asked' = asked \cup {j}
          /\ losses' \in 0 .. MaxLosses
      BY <1>1, HasAsked
    <2> QED
      BY <1>1, <1>2, <1>4, <1>5, <2>1, <2>2, StreamStep
  <1> QED
    BY <1>7, <1>8

LEMMA SyncOnPreprepare ==
  ASSUME SyncInv, NEW j \in Joiners, NEW h \in 1 .. proposed,
         OnPreprepare(j, h) \/ OnPreprepareEmpty(j, h)
  PROVE  SyncInv'
  <1> USE Local
  <1>1. TypeOK
    BY DEF SyncInv
  <1>2. CASE OnPreprepare(j, h)
    <2>1. /\ view[j] = h - 1 /\ IsBlockValid(j, h, TRUE)
          /\ tracked' = [tracked EXCEPT ![j] = @ \cup {h}]
          /\ UNCHANGED <<chain, utxo, applied, view, proposed, asked, down, request, answer, losses>>
      BY <1>2 DEF OnPreprepare, streamVars
    <2>2. /\ tracked'[j] = tracked[j] \cup {h}
          /\ \A n \in Nodes \ {j} : tracked'[n] = tracked[n]
          /\ tracked' \in [Nodes -> SUBSET (1 .. proposed)]
      BY <1>1, <2>1 DEF TypeOK
    <2>3. TypeOK'
      BY <1>1, <2>1, <2>2 DEF TypeOK
    <2>4. NodesGood'
      <3>1. chain[j] # <<>> /\ LastHeight(chain[j]) = h - 1 /\ Spends[h] \subseteq utxo[j]
        BY <2>1 DEF IsBlockValid, VerifyBlockTransactions
      <3>2. GoodNode(chain[j], utxo[j], applied[j], view[j], tracked[j] \cup {h})
        <4>1. GoodNode(chain[j], utxo[j], applied[j], view[j], tracked[j])
          OBVIOUS
        <4> QED
          BY <2>1, <3>1, <4>1 DEF GoodNode
      <3>3. GoodNode(chain'[j], utxo'[j], applied'[j], view'[j], tracked'[j])
        BY <2>1, <2>2, <3>2
      <3> QED
        BY <2>1, <2>2, <3>3, OneNode DEF SyncInv
    <2>5. StreamsGood' /\ NewNodesEmpty' /\ FounderView'
      BY <2>1 DEF StreamsGood, NewNodesEmpty, FounderView, SyncInv
    <2> QED
      BY <2>3, <2>4, <2>5 DEF SyncInv
  <1>3. CASE OnPreprepareEmpty(j, h)
    <2>1. /\ down' = down \cup {j}
          /\ UNCHANGED <<chain, utxo, applied, view, tracked, proposed, asked, request, answer, losses>>
      BY <1>3 DEF OnPreprepareEmpty, consensusVars, streamVars
    <2>2. TypeOK'
      BY <1>1, <2>1 DEF TypeOK
    <2>3. NodesGood' /\ StreamsGood' /\ NewNodesEmpty' /\ FounderView'
      BY <2>1 DEF NodesGood, StreamsGood, NewNodesEmpty, FounderView, SyncInv
    <2> QED
      BY <2>2, <2>3 DEF SyncInv
  <1> QED
    BY <1>2, <1>3

LEMMA SyncOnCommit ==
  ASSUME SyncInv, NEW n \in Nodes, NEW h, OnCommit(n, h)
  PROVE  SyncInv'
  <1> USE Local
  <1> DEFINE c == chain[n]
             d == Append(c, FullBlock(h))
  <1>1. /\ h \in tracked[n]
        /\ tracked' = [tracked EXCEPT ![n] = @ \ {h}]
        /\ chain' = IF IsBlockValid(n, h, TRUE) THEN [chain EXCEPT ![n] = d] ELSE chain
        /\ AddBlockToUtxo(n, h)
        /\ view' = [view EXCEPT ![n] = @ + 1]
        /\ UNCHANGED <<proposed, asked, down, request, answer, losses>>
    BY DEF OnCommit, streamVars
  <1>2. TypeOK /\ h \in Heights
    BY <1>1 DEF SyncInv
  <1>3. /\ c # <<>> /\ LastHeight(c) = h - 1 /\ Spends[h] \subseteq utxo[n]
        /\ h = Len(c) /\ view[n] + 1 = Len(c) /\ applied[n] # {}
        /\ GoodNode(d, (utxo[n] \cup Creates[h]) \ Spends[h], applied[n] \cup {h}, view[n] + 1,
                    tracked[n] \ {h})
    <2>1. /\ c \in Seq(Entries) /\ applied[n] \in SUBSET Heights /\ view[n] \in Nat
          /\ tracked[n] \in SUBSET (Heights \ {0})
          /\ GoodNode(c, utxo[n], applied[n], view[n], tracked[n])
      OBVIOUS
    <2> HIDE DEF c
    <2> QED
      BY <1>1, <2>1, Commits
  <1>4. chain' = [chain EXCEPT ![n] = d]
    BY <1>1, <1>3 DEF IsBlockValid, VerifyBlockTransactions
  <1>5. d \in Seq(Entries) /\ Len(d) = Len(c) + 1
    <2>1. FullBlock(h) \in Entries
      BY <1>2 DEF FullBlock, Entries
    <2> QED
      BY <2>1
  <1> HIDE DEF d
  <1>6. /\ chain'[n] = d /\ view'[n] = view[n] + 1 /\ tracked'[n] = tracked[n] \ {h}
        /\ \A m \in Nodes \ {n} : /\ chain'[m] = chain[m] /\ view'[m] = view[m]
                                  /\ tracked'[m] = tracked[m]
        /\ chain' \in [Nodes -> Seq(Entries)] /\ view' \in [Nodes -> Nat]
        /\ tracked' \in [Nodes -> SUBSET (1 .. proposed)]
    <2>1. /\ chain'[n] = d /\ \A m \in Nodes \ {n} : chain'[m] = chain[m]
          /\ chain' \in [Nodes -> Seq(Entries)]
      BY <1>2, <1>4, <1>5 DEF TypeOK
    <2>2. /\ view'[n] = view[n] + 1 /\ \A m \in Nodes \ {n} : view'[m] = view[m]
          /\ view' \in [Nodes -> Nat]
      BY <1>1, <1>2 DEF TypeOK
    <2>3. /\ tracked'[n] = tracked[n] \ {h} /\ \A m \in Nodes \ {n} : tracked'[m] = tracked[m]
          /\ tracked' \in [Nodes -> SUBSET (1 .. proposed)]
      BY <1>1, <1>2 DEF TypeOK
    <2> QED
      BY <2>1, <2>2, <2>3
  <1>7. /\ utxo' \in [Nodes -> SUBSET Outpoints] /\ applied' \in [Nodes -> SUBSET Heights]
        /\ utxo'[n] = (utxo[n] \cup Creates[h]) \ Spends[h]
        /\ applied'[n] = applied[n] \cup {h}
        /\ \A m \in Nodes \ {n} : utxo'[m] = utxo[m] /\ applied'[m] = applied[m]
    BY <1>1, <1>2, AddBlockIs
  <1>8. TypeOK'
    BY <1>1, <1>2, <1>6, <1>7 DEF TypeOK
  <1>9. NodesGood'
    <2>1. GoodNode(chain'[n], utxo'[n], applied'[n], view'[n], tracked'[n])
      BY <1>3, <1>6, <1>7
    <2> QED
      BY <1>6, <1>7, <2>1, OneNode DEF SyncInv
  <1>10. StreamsGood'
    <2> SUFFICES ASSUME NEW j \in Joiners
                 PROVE  GoodStream(request'[j], answer'[j], chain'[j], applied'[j])
      BY DEF StreamsGood
    <2>1. CASE j = n
      <3>1. GoodStream(request[n], answer[n], c, applied[n])
        BY <2>1
      <3>2. /\ \A k \in DOMAIN request[n] : request[n][k].type # "GET_HEADERS"
            /\ \A k \in DOMAIN answer[n] : answer[n][k].type # "HEADERS"
        BY <1>3, <3>1 DEF GoodStream
      <3>3. GoodStream(request[n], answer[n], d, applied[n])
        <4>1. /\ c \in Seq(Entries) /\ d \in Seq(Entries) /\ Len(d) >= Len(c)
              /\ request[n] \in Seq(Requests) /\ answer[n] \in Seq(Answers)
          BY <1>5, <2>1
        <4> HIDE DEF c
        <4> QED
          BY <3>1, <4>1, StreamKept
      <3>4. GoodStream(request[n], answer[n], d, applied'[n])
        BY <3>2, <3>3 DEF GoodStream
      <3> QED
        BY <1>1, <1>6, <2>1, <3>4
    <2>2. CASE j # n
      BY <1>1, <1>6, <1>7, <2>2
    <2> QED
      BY <2>1, <2>2
  <1>11. NewNodesEmpty'
    <2>1. \A j \in Joiners \ asked : j # n
      BY <1>3 DEF NewNodesEmpty, SyncInv
    <2> QED
      BY <1>1, <1>6, <2>1 DEF NewNodesEmpty, SyncInv
  <1>12. FounderView'
    <2>1. CASE n = founder
      <3>1. view'[founder] = Len(d) - 1 /\ d # <<>>
        BY <1>3, <1>5, <1>6, <2>1
      <3> QED
        BY <1>6, <2>1, <3>1 DEF FounderView
    <2>2. CASE n # founder
      BY <1>6, <2>2 DEF FounderView, SyncInv
    <2> QED
      BY <2>1, <2>2
  <1> QED
    BY <1>8, <1>9, <1>10, <1>11, <1>12 DEF SyncInv

LEMMA SyncNext == SyncInv /\ [Next]_vars => SyncInv'
  <1> SUFFICES ASSUME SyncInv, [Next]_vars PROVE SyncInv'
    OBVIOUS
  <1>1. CASE Found
    BY <1>1, SyncFound
  <1>2. CASE Propose
    BY <1>2, SyncPropose
  <1>3. ASSUME NEW j \in Joiners, Sync(j)
        PROVE  SyncInv'
    BY <1>3, SyncAsk, SyncOnGetHeaders, SyncOnGetBlock, SyncOnHeaders, SyncOnBlock DEF Sync
  <1>4. ASSUME NEW j \in Joiners, NEW h \in 1 .. proposed,
               OnPreprepare(j, h) \/ OnPreprepareEmpty(j, h)
        PROVE  SyncInv'
    BY <1>4, SyncOnPreprepare
  <1>5. ASSUME NEW j \in Joiners, LoseRequest(j) \/ LoseAnswer(j)
        PROVE  SyncInv'
    BY <1>5, SyncLose
  <1>6. ASSUME NEW n \in Nodes, NEW h \in 1 .. proposed, OnCommit(n, h)
        PROVE  SyncInv'
    BY <1>6, SyncOnCommit
  <1>7. CASE UNCHANGED vars
    BY <1>7 DEF vars, SyncInv, TypeOK, NodesGood, StreamsGood, NewNodesEmpty, FounderView
  <1> QED
    BY <1>1, <1>2, <1>3, <1>4, <1>5, <1>6, <1>7, Zenon DEF Next

LEMMA SyncInvariant == Spec => []SyncInv
  BY SyncInit, SyncNext, PTL DEF Spec

\* Chains, UTXO sets and messages have their types, and no batch of headers is longer
\* than MAX_HEADERS (getHeadersFrom).
THEOREM TypeCorrect == Spec => []TypeOK
  <1>1. SyncInv => TypeOK
    BY DEF SyncInv
  <1> QED
    BY <1>1, SyncInvariant, PTL

\* Header batches, blocks and commits add to one linked chain: what an empty chain is
\* given first is the genesis block (appendHeaders, addBlock).
THEOREM ChainsLinked == Spec => []ChainLinked
  <1>1. SyncInv => ChainLinked
    BY DEF SyncInv, NodesGood, GoodNode, Linked, ChainLinked
  <1> QED
    BY <1>1, SyncInvariant, PTL

\* A node's UTXO set is what the blocks it holds in full make of it, whatever the order
\* in which headers, blocks, proposals and commits reach it (onBlock, onCommit).
THEOREM UtxoIsExplained == Spec => []UtxoExplained
  <1>1. SyncInv => UtxoExplained
    BY DEF SyncInv, NodesGood, GoodNode, UtxoExplained, Spent, Paid, Held
  <1> QED
    BY <1>1, SyncInvariant, PTL
=============================================================================
