----------------------------- MODULE ChainSync -----------------------------
(***************************************************************************)
(* How a node that joins gets the chain: GET_HEADERS to the node it takes  *)
(* for the leader, HEADERS in batches, a GET_BLOCK for each header it      *)
(* awaits, and the BLOCKs that come back, while the network goes on        *)
(* committing blocks the joining node may take part in.                    *)
(*                                                                         *)
(*  - A handler is one step (m_handlerMutex).  Requests and answers of one *)
(*    pair of nodes travel over one connection, in order.  recv may return *)
(*    two messages in one piece, or a part of one: the parser throws and   *)
(*    they are lost (LoseRequest, LoseAnswer).                             *)
(*  - The network agrees on one block for each height (Consensus), so a    *)
(*    block's header is its height.  The founder stands for the nodes that *)
(*    have been there from the start.                                      *)
(*  - A hash is what is hashed: height, whether the transactions are       *)
(*    included, and nonce.  A mined nonce is not 0, which fails once in    *)
(*    2^64.  SHA-256 has no collisions.                                    *)
(*  - Quorums are left to Consensus: a node may commit any proposal it     *)
(*    tracks, early, late or never.  The wallet changes with the UTXO set. *)
(***************************************************************************)
EXTENDS Integers, Sequences, FiniteSetsExt

CONSTANTS
    Joiners,    \* the nodes that join.  Example: {j1, j2}
    founder,    \* the node that creates the genesis block
    Asks,       \* Asks[j]: the peer j takes for the leader, and asks
    Spends,     \* Spends[h]: the outpoints the block of height h spends
    Creates,    \* Creates[h]: those it creates
    MaxHeaders, \* MAX_HEADERS (200 in the code)
    MaxHeight,  \* bound: the height of the last block the network commits
    InitViews,  \* what m_currentView, never initialised, may start with
    MaxLosses   \* bound: pieces of the stream that cannot be parsed

Nodes == Joiners \cup {founder}
Heights == 0 .. MaxHeight
None == -1      \* no height: the empty locator, the error block

ASSUME SyncAssumption ==
    /\ founder \notin Joiners
    /\ Asks \in [Joiners -> Nodes] /\ \A j \in Joiners : Asks[j] # j
    /\ MaxHeaders \in Nat \ {0} /\ MaxHeight \in Nat /\ MaxLosses \in Nat
    /\ InitViews \subseteq Nat
    /\ Spends[0] = {} /\ \A h \in Heights \ {0} : Spends[h] # {}
    /\ \A g, h \in Heights : g # h => Creates[g] \cap Creates[h] = {}

VARIABLES
    chain,      \* chain[n]: _chain of node n
    utxo,       \* utxo[n]: the keys of n's UTXOSet
    view,       \* view[n]: m_currentView of node n
    tracked,    \* tracked[n]: heights whose proposal n tracks and has not committed
    proposed,   \* the height of the last proposal of the network
    asked,      \* the joining nodes that have sent their first request
    down,       \* the nodes that have crashed
    request,    \* request[j]: messages from j to Asks[j]
    answer,     \* answer[j]: messages from Asks[j] to j
    losses,     \* pieces lost so far
    applied     \* history: applied[n] is the heights whose transactions n's UTXO set has seen

vars == <<chain, utxo, view, tracked, proposed, asked, down, request, answer, losses, applied>>

-----------------------------------------------------------------------------
(* Blocks, headers and messages *)

\* A member of _chain; a header whose block is awaited has no transactions.
Entries == [height : Heights, body : BOOLEAN, awaited : BOOLEAN]

FullBlock(h) == [height |-> h, body |-> TRUE, awaited |-> FALSE]
AwaitedHeader(h) == [height |-> h, body |-> FALSE, awaited |-> TRUE]

Nonce(h) == IF h = 0 THEN 0 ELSE 1

\* The hash in the header: createGenesisBlock sets it when the transactions are
\* in the block, Block's constructor before there are any and before mining.
HeaderHash(h) == [height |-> h, body |-> h = 0, nonce |-> 0]

\* calculateHash of a block with or without its transactions.
CalculatedHash(h, body) == [height |-> h, body |-> body, nonce |-> Nonce(h)]

GetHeaders(h) == [type |-> "GET_HEADERS", from |-> h]
Headers(hs) == [type |-> "HEADERS", list |-> hs]
GetBlock(h) == [type |-> "GET_BLOCK", height |-> h]
BlockMessage(h, body) == [type |-> "BLOCK", height |-> h, body |-> body]

Requests == [type : {"GET_HEADERS"}, from : Heights \cup {None}]
            \cup [type : {"GET_BLOCK"}, height : Heights]
Answers == [type : {"HEADERS"}, list : Seq(Heights)]
           \cup [type : {"BLOCK"}, height : Heights \cup {None}, body : BOOLEAN]

Outpoints == UNION {Creates[h] : h \in Heights}

LastHeight(c) == c[Len(c)].height

FirstOf(S) == IF S = {} THEN 0 ELSE Min(S)

\* The indexes of a header and of the first awaited header, 0 if there is none.
IndexOf(c, h) == FirstOf({i \in DOMAIN c : c[i].height = h})
FirstAwaited(c) == FirstOf({i \in DOMAIN c : c[i].awaited})

\* Slip: all headers at once.
HeadersUnbounded(c, i) == [k \in 1 .. (Len(c) - i + 1) |-> c[i + k - 1].height]

\* getHeadersFrom without a stop hash, i counted from 1.
GetHeadersFrom(c, i) ==
    [k \in 1 .. Min({MaxHeaders, Len(c) - i + 1}) |-> c[i + k - 1].height]

\* Slip: the index is advanced although the locator is unknown.
StartPastGenesis(c, h) == IndexOf(c, h) + 2

\* Where onGetHeaders starts: after the locator's header, or at the genesis block.
StartAfterFork(c, h) == IndexOf(c, h) + 1

\* appendHeaders takes headers for as long as each follows the one before.  An
\* empty chain takes any first header.
Follows(c, hs, k) ==
    \/ k = 1 /\ c = <<>>
    \/ hs[k] = (IF k = 1 THEN LastHeight(c) ELSE hs[k-1]) + 1
AppendHeaders(c, hs) ==
    LET taken == CHOOSE n \in 0 .. Len(hs) :
                    /\ \A k \in 1 .. n : Follows(c, hs, k)
                    /\ n = Len(hs) \/ ~Follows(c, hs, n + 1)
    IN c \o [k \in 1 .. taken |-> AwaitedHeader(hs[k])]

\* Slip: the locator is left empty.
AsksFromGenesis(hs) == None

\* The locator of the next request is the last header received.
NextLocator(hs) == hs[Len(hs)]

\* Slip: the first awaited header is taken for complete.
RequestsAfterFirst(c) ==
    IF FirstAwaited(c) = 0 THEN <<>> ELSE GetHeadersFrom(c, FirstAwaited(c) + 1)

\* getAppendedHeaders: what is asked for once the headers are there.
GetAppendedHeaders(c) ==
    IF FirstAwaited(c) = 0 THEN <<>> ELSE GetHeadersFrom(c, FirstAwaited(c))

-----------------------------------------------------------------------------
(* What a block does to a chain and to the UTXO set *)

\* verifyBlockTransactions; a block without transactions has nothing to verify.
VerifyBlockTransactions(n, h, body) == body => Spends[h] \subseteq utxo[n]

\* isBlockValid, on a chain that is not empty.
IsBlockValid(n, h, body) ==
    /\ chain[n] # <<>> /\ LastHeight(chain[n]) = h - 1
    /\ VerifyBlockTransactions(n, h, body)

\* addFullBlockToFirstAwaitedHeader: the block's hash is computed, not read.
Completes(n, h, body) ==
    LET i == FirstAwaited(chain[n]) IN
    /\ i # 0
    /\ CalculatedHash(h, body) = HeaderHash(chain[n][i].height)
    /\ VerifyBlockTransactions(n, h, body)

\* addBlockToUtxo, and walletProcessNewBlock before it.
AddBlockToUtxo(n, h) ==
    /\ utxo' = [utxo EXCEPT ![n] = (@ \cup Creates[h]) \ Spends[h]]
    /\ applied' = [applied EXCEPT ![n] = @ \cup {h}]

Init ==
    /\ chain = [n \in Nodes |-> <<>>]
    /\ utxo = [n \in Nodes |-> {}]
    /\ view \in {v \in [Nodes -> InitViews \cup {0}] : v[founder] = 0}
    /\ tracked = [n \in Nodes |-> {}]
    /\ proposed = 0
    /\ asked = {} /\ down = {}
    /\ request = [j \in Joiners |-> <<>>]
    /\ answer = [j \in Joiners |-> <<>>]
    /\ losses = 0
    /\ applied = [n \in Nodes |-> {}]

consensusVars == <<view, tracked, proposed>>
streamVars == <<request, answer, losses>>

-----------------------------------------------------------------------------
(* Start-up: recieveBlockchain *)

\* The leader creates the chain; it has been in the peers' lists for a while.
Found ==
    /\ chain[founder] = <<>> /\ founder \notin down
    /\ chain' = [chain EXCEPT ![founder] = <<FullBlock(0)>>]
    /\ AddBlockToUtxo(founder, 0)
    /\ UNCHANGED <<consensusVars, asked, down, streamVars>>

\* Any other node asks the leader, once, with an empty locator.
Ask(j) ==
    /\ j \notin asked \cup down
    /\ asked' = asked \cup {j}
    /\ request' = [request EXCEPT ![j] = Append(@, GetHeaders(None))]
    /\ UNCHANGED <<chain, utxo, applied, consensusVars, down, answer, losses>>

-----------------------------------------------------------------------------
(* Handlers of the peer asked *)

Reply(j, m) ==
    /\ request' = [request EXCEPT ![j] = Tail(@)]
    /\ answer' = [answer EXCEPT ![j] = Append(@, m)]
    /\ UNCHANGED <<chain, utxo, applied, consensusVars, asked, down, losses>>

Requested(j, type) ==
    /\ request[j] # <<>> /\ Head(request[j]).type = type
    /\ Asks[j] \notin down

OnGetHeaders(j) ==
    /\ Requested(j, "GET_HEADERS")
    /\ LET c == chain[Asks[j]]
       IN Reply(j, Headers(GetHeadersFrom(c, StartAfterFork(c, Head(request[j]).from))))

\* findBlock also finds an awaited header, and serves it as it is.
OnGetBlock(j) ==
    /\ Requested(j, "GET_BLOCK")
    /\ LET c == chain[Asks[j]]
           h == Head(request[j]).height
           i == IndexOf(c, h)
       IN Reply(j, IF i = 0 THEN BlockMessage(None, FALSE) ELSE BlockMessage(h, c[i].body))

-----------------------------------------------------------------------------
(* Handlers of the node that joins *)

Answered(j, type) ==
    /\ answer[j] # <<>> /\ Head(answer[j]).type = type
    /\ j \notin down
    /\ answer' = [answer EXCEPT ![j] = Tail(@)]

\* A full batch asks for the next; otherwise the blocks are asked for.
OnHeaders(j) ==
    /\ Answered(j, "HEADERS")
    /\ LET hs == Head(answer[j]).list
           c == AppendHeaders(chain[j], hs)
           wanted == GetAppendedHeaders(c)
       IN /\ chain' = [chain EXCEPT ![j] = c]
          /\ request' = [request EXCEPT ![j] = @ \o
                IF Len(hs) = MaxHeaders THEN <<GetHeaders(NextLocator(hs))>>
                ELSE [k \in DOMAIN wanted |-> GetBlock(wanted[k])]]
    /\ UNCHANGED <<utxo, applied, consensusVars, asked, down, losses>>

\* The block completes the first awaited header, or extends the chain.  Nobody asks
\* for a block that would extend it.
ChainWith(j, h, body) ==
    LET b == [height |-> h, body |-> body, awaited |-> FALSE]
    IN IF Completes(j, h, body) THEN [chain[j] EXCEPT ![FirstAwaited(chain[j])] = b]
       ELSE IF IsBlockValid(j, h, body) THEN Append(chain[j], b)
       ELSE chain[j]

\* Slip: a block changes the UTXO set even if it was refused, as in onCommit.
TakesAnyBlock(j, h, body) ==
    /\ chain' = [chain EXCEPT ![j] = ChainWith(j, h, body)]
    /\ AddBlockToUtxo(j, h)

\* onBlock updates the UTXO set for a block that was added.
TakeBlock(j, h, body) ==
    /\ chain' = [chain EXCEPT ![j] = ChainWith(j, h, body)]
    /\ IF body /\ (Completes(j, h, body) \/ IsBlockValid(j, h, body))
       THEN AddBlockToUtxo(j, h) ELSE UNCHANGED <<utxo, applied>>

OnBlock(j) ==
    /\ Answered(j, "BLOCK")
    /\ LET m == Head(answer[j])
       IN IF m.height = None THEN UNCHANGED <<chain, utxo, applied>>
          ELSE TakeBlock(j, m.height, m.body)
    /\ UNCHANGED <<consensusVars, asked, down, request, losses>>

-----------------------------------------------------------------------------
(* The network goes on *)

\* The next block is proposed, once the last one is committed.
Propose ==
    /\ proposed < MaxHeight /\ tracked[founder] = {}
    /\ IsBlockValid(founder, proposed + 1, TRUE)
    /\ proposed' = proposed + 1
    /\ tracked' = [tracked EXCEPT ![founder] = @ \cup {proposed + 1}]
    /\ UNCHANGED <<chain, utxo, applied, view, asked, down, streamVars>>

\* onPreprepare: block h is proposed in view h - 1.
OnPreprepare(j, h) ==
    /\ j \notin down /\ view[j] = h - 1
    /\ IsBlockValid(j, h, TRUE)
    /\ tracked' = [tracked EXCEPT ![j] = @ \cup {h}]
    /\ UNCHANGED <<chain, utxo, applied, view, proposed, asked, down, streamVars>>

\* getLatestBlock reads the last block of an empty chain: the node may crash.
OnPreprepareEmpty(j, h) ==
    /\ j \notin down /\ view[j] = h - 1
    /\ chain[j] = <<>>
    /\ down' = down \cup {j}
    /\ UNCHANGED <<chain, utxo, applied, consensusVars, asked, streamVars>>

\* onCommit ignores what addBlock returns.
OnCommit(n, h) ==
    /\ n \notin down /\ h \in tracked[n]
    /\ tracked' = [tracked EXCEPT ![n] = @ \ {h}]
    /\ chain' = IF IsBlockValid(n, h, TRUE)
                THEN [chain EXCEPT ![n] = Append(@, FullBlock(h))] ELSE chain
    /\ AddBlockToUtxo(n, h)
    /\ view' = [view EXCEPT ![n] = @ + 1]
    /\ UNCHANGED <<proposed, asked, down, streamVars>>

-----------------------------------------------------------------------------
(* The stream *)

Lost == losses < MaxLosses /\ losses' = losses + 1

LoseRequest(j) ==
    /\ request[j] # <<>> /\ Lost
    /\ request' = [request EXCEPT ![j] = Tail(@)]
    /\ UNCHANGED <<chain, utxo, applied, consensusVars, asked, down, answer>>

LoseAnswer(j) ==
    /\ answer[j] # <<>> /\ Lost
    /\ answer' = [answer EXCEPT ![j] = Tail(@)]
    /\ UNCHANGED <<chain, utxo, applied, consensusVars, asked, down, request>>

Sync(j) == Ask(j) \/ OnGetHeaders(j) \/ OnGetBlock(j) \/ OnHeaders(j) \/ OnBlock(j)

Next ==
    \/ Found \/ Propose
    \/ \E j \in Joiners :
        \/ Sync(j)
        \/ \E h \in 1 .. proposed : OnPreprepare(j, h) \/ OnPreprepareEmpty(j, h)
        \/ LoseRequest(j) \/ LoseAnswer(j)
    \/ \E n \in Nodes, h \in 1 .. proposed : OnCommit(n, h)

Spec == Init /\ [][Next]_vars

\* Threads run: a message that can be handled is handled in the end.  Nothing is
\* said of proposals, commits and losses.
FairSpec ==
    Spec /\ WF_vars(Found) /\ \A j \in Joiners : WF_vars(Sync(j))

-----------------------------------------------------------------------------
(* Properties *)

\* Types: heights, outpoints and messages are in range; a batch has at most
\* MAX_HEADERS headers.
TypeOK ==
    /\ chain \in [Nodes -> Seq(Entries)]
    /\ utxo \in [Nodes -> SUBSET Outpoints] /\ applied \in [Nodes -> SUBSET Heights]
    /\ view \in [Nodes -> Nat]
    /\ tracked \in [Nodes -> SUBSET (1 .. proposed)]
    /\ proposed \in Heights
    /\ asked \subseteq Joiners /\ down \subseteq Nodes
    /\ request \in [Joiners -> Seq(Requests)]
    /\ answer \in [Joiners -> Seq(Answers)]
    /\ losses \in 0 .. MaxLosses
    /\ \A j \in Joiners : \A k \in DOMAIN answer[j] :
        answer[j][k].type = "HEADERS" => Len(answer[j][k].list) <= MaxHeaders

\* A node's chain has one block, or header, for each height from the genesis
\* block on, although an empty chain takes any first header, and batches of
\* headers, blocks and commits add to one chain.
ChainLinked ==
    \A n \in Nodes : \A i \in DOMAIN chain[n] : chain[n][i].height = i - 1

\* The UTXO set of a node is what the transactions it has seen make of it: each
\* spends what others created, and no output comes back.  A block has been
\* applied exactly if it is on the chain with its transactions: a header served
\* in place of its block, a block whose hash does not match and a proposal
\* committed beside the answers to old requests change both or neither.
UtxoExplained ==
    \A n \in Nodes :
        LET spent == UNION {Spends[h] : h \in applied[n]}
            paid == UNION {Creates[h] : h \in applied[n]}
        IN /\ spent \subseteq paid
           /\ utxo[n] = paid \ spent
           /\ applied[n] = {chain[n][i].height : i \in {k \in DOMAIN chain[n] : chain[n][k].body}}

\* The exchange ends: no batch of headers is asked for again and again.
SyncEnds ==
    <>[](\A j \in Joiners : Asks[j] \notin down /\ j \notin down =>
            request[j] = <<>> /\ answer[j] = <<>>)

\* A node whose headers come from the founder gets the genesis block, and with
\* it the outpoints everybody starts from, unless a piece of the stream is lost.
GenesisCompleted ==
    \A j \in Joiners : Asks[j] = founder =>
        (chain[j] # <<>> ~> (losses > 0 \/ FirstAwaited(chain[j]) # 1))

\* Claim: "Ask and recieve the blockchain instance" (P2PNode.cpp): each header a
\* node has been given is completed.
HeadersCompleted ==
    \A j \in Joiners :
        chain[j] # <<>> ~> (\A i \in DOMAIN chain[j] : ~chain[j][i].awaited)
=============================================================================
