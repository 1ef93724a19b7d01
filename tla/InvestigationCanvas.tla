--------------------------- MODULE InvestigationCanvas ---------------------------
(***************************************************************************)
(* The investigation canvas of one team: nodes and edges kept by the       *)
(* server (routes/investigationCanvas.routes), and the copy every open     *)
(* browser keeps of them (InvestigationCanvasContainer): read once over    *)
(* HTTP, patched by socket events, changed ahead of the server's answer    *)
(* and put back when the answer is a refusal.                              *)
(*                                                                         *)
(* A browser's HTTP exchanges and its socket are separate connections: an  *)
(* answer and an event may arrive in either order; events keep theirs. A   *)
(* browser's own requests overtake each other too: each kind of change has *)
(* a mutation hook of its own, and nothing makes one wait for another. A   *)
(* socket that is down receives nothing, and nothing is sent again when it *)
(* is back. Row ids are SQLite's INTEGER PRIMARY KEY: the id of the row    *)
(* deleted last is given out again.                                        *)
(*                                                                         *)
(* The team stays: a reset of the event and the deletion of the team take  *)
(* its rows away without an event, and are not in this module.             *)
(***************************************************************************)
EXTENDS Integers, FiniteSets, Sequences

CONSTANTS
    Scenarios,         \* cyber_ranges the team has worked on
    Authors,           \* open browsers of the team's students
    Onlookers,         \* open browsers of staff
    Labels,            \* what a node says, and where it lies
    Slots,             \* bound: mutations one browser has under way
    MaxNode, MaxEdge,  \* bounds: rows of each table
    MaxWrites,         \* bound: requests that change a row
    MaxFaults,         \* bound: connections, requests and answers lost, pages left, scenarios switched
    MaxInbox           \* bound: events on their way to one browser

Clients == Authors \cup Onlookers
NoRange == "none"
NoData  == [nodes |-> {}, edges |-> {}, loaded |-> FALSE]

ASSUME CanvasAssumption ==
    /\ MaxNode \in Nat \ {0} /\ MaxEdge \in Nat \ {0} /\ MaxWrites \in Nat /\ MaxFaults \in Nat /\ MaxInbox \in Nat
    /\ NoRange \notin Scenarios

Node == [id : 1..MaxNode, range : Scenarios, label : Labels]
Edge == [id : 1..MaxEdge, range : Scenarios, from : 1..MaxNode, to : 1..MaxNode]

VARIABLES
    active,    \* the scenario the team's progress row says is active
    nodes,     \* rows of investigation_canvas_nodes
    edges,     \* rows of investigation_canvas_edges
    writes,    \* requests that have changed a row
    faults,    \* what has gone wrong, or away
    view,      \* the mounted canvas of each browser, and whether it may be edited
    cache,     \* the query cache: a board per scenario
    fetch,     \* the GET of a board, while it is out
    request,   \* the mutations a browser waits for, with what onMutate returned
    online,    \* the socket is connected
    inbox,     \* events on their way
    missed     \* history: why a browser's board may differ from the rows

server == <<active, nodes, edges, writes>>
canvasVars == <<server, faults, view, cache, fetch, request, online, inbox, missed>>

Hidden   == [range |-> NoRange, editable |-> FALSE]
NotAsked == [at |-> "none"]
NoMutation == [at |-> "none"]
Nothing == "nothing"
Causes == {Nothing, "offline", "overtaken", "put back", "late answer", "other scenario", "no answer"}

Board(r) ==
    [nodes |-> {n \in nodes : n.range = r}, edges |-> {e \in edges : e.range = r}, loaded |-> TRUE]

\* the first cause since the server read the board
Because(old, cause, when) == IF old = Nothing /\ when THEN cause ELSE old

-------------------------------------------------------------------------------
(* The handlers of socket events, and the optimistic updates alike, patch a board *)

AddNode(b, n) ==
    IF \E m \in b.nodes : m.id = n.id THEN b ELSE [b EXCEPT !.nodes = @ \cup {n}]
PutNode(b, n) ==
    [b EXCEPT !.nodes = {IF m.id = n.id THEN n ELSE m : m \in @}]
DropNode(b, i) ==
    [b EXCEPT !.nodes = {m \in @ : m.id # i}, !.edges = {e \in @ : e.from # i /\ e.to # i}]
AddEdge(b, e) ==
    IF \E d \in b.edges : d.id = e.id THEN b ELSE [b EXCEPT !.edges = @ \cup {e}]
DropEdge(b, i) ==
    [b EXCEPT !.edges = {e \in @ : e.id # i}]

\* Mutant: an update of a node that is already drawn is taken for a repeated creation.
HandleOnce(b, ev) ==
    CASE ev.type \in {"node_created", "node_updated"} -> AddNode(b, ev.row)
      [] ev.type = "node_deleted" -> DropNode(b, ev.row.id)
      [] ev.type = "edge_created" -> AddEdge(b, ev.row)
      [] ev.type = "edge_deleted" -> DropEdge(b, ev.row.id)

Handle(b, ev) ==
    CASE ev.type = "node_created" -> AddNode(b, ev.row)
      [] ev.type = "node_updated" -> PutNode(b, ev.row)
      [] ev.type = "node_deleted" -> DropNode(b, ev.row.id)
      [] ev.type = "edge_created" -> AddEdge(b, ev.row)
      [] ev.type = "edge_deleted" -> DropEdge(b, ev.row.id)

\* patchCache: a board that was never read is left alone
Patch(b, ev) == IF b.loaded THEN Handle(b, ev) ELSE b

-------------------------------------------------------------------------------
(* The server                                                               *)

\* the id sqlite gives next: one more than the largest
NextIds(rows, max) == {i \in 1..max : (\A r \in rows : r.id < i) /\ (i = 1 \/ \E r \in rows : r.id = i - 1)}
Event(type, row) == [type |-> type, row |-> row]

\* emitScoped: the team's room, and the staff who may see the team in this scenario
Emit(evs) ==
    /\ \A c \in Clients : online[c] => Len(inbox[c]) + Len(evs) <= MaxInbox
    /\ inbox' = [c \in Clients |-> IF online[c] THEN inbox[c] \o evs ELSE inbox[c]]
    /\ missed' = [c \in Clients |-> [r \in Scenarios |-> Because(missed[c][r], "offline", ~online[c])]]

Answer(c, k, reply) == request' = [request EXCEPT ![c][k].at = reply]
Fault   == faults < MaxFaults /\ faults' = faults + 1
Written == writes < MaxWrites /\ writes' = writes + 1
Sent(c, k, op) == request[c][k].at = "sent" /\ request[c][k].op = op

\* the row a request names must be the team's and of the scenario in the URL
Named(c, k, rows) == {x \in rows : x.id = request[c][k].row.id /\ x.range = request[c][k].range}

\* POST .../nodes: only into the team's active scenario
ServeCreateNode(c, k) ==
    /\ Sent(c, k, "create node")
    /\ IF active # request[c][k].range
       THEN Answer(c, k, "refused") /\ UNCHANGED <<server, inbox, missed>>
       ELSE \E i \in NextIds(nodes, MaxNode) : LET n == [request[c][k].row EXCEPT !.id = i] IN
            /\ Written
            /\ nodes' = nodes \cup {n}
            /\ Emit(<<Event("node_created", n)>>)
            /\ request' = [request EXCEPT ![c][k].at = "done", ![c][k].row = n]
            /\ UNCHANGED <<active, edges>>
    /\ UNCHANGED <<faults, view, cache, fetch, online>>

\* PATCH .../nodes/:nodeId: the fields it carries, whatever scenario is active
ServeEditNode(c, k) ==
    /\ Sent(c, k, "edit node")
    /\ IF Named(c, k, nodes) = {}
       THEN Answer(c, k, "refused") /\ UNCHANGED <<server, inbox, missed>>
       ELSE \E x \in Named(c, k, nodes) : LET n == [x EXCEPT !.label = request[c][k].row.label] IN
            /\ Written
            /\ nodes' = PutNode([nodes |-> nodes], n).nodes
            /\ Emit(<<Event("node_updated", n)>>)
            /\ Answer(c, k, "done")
            /\ UNCHANGED <<active, edges>>
    /\ UNCHANGED <<faults, view, cache, fetch, online>>

\* DELETE .../nodes/:nodeId: its edges in the same transaction, and their events first
Touching(i) == {e \in edges : e.from = i \/ e.to = i}
\* a list of them, in whatever order the query gives
Listings(rows) ==
    {s \in UNION {[1..n -> rows] : n \in 0..MaxEdge} :
        (\A e \in rows : \E j \in DOMAIN s : s[j] = e) /\ \A i, j \in DOMAIN s : s[i] = s[j] => i = j}
ServeDeleteNode(c, k) ==
    /\ Sent(c, k, "delete node")
    /\ IF Named(c, k, nodes) = {}
       THEN Answer(c, k, "refused") /\ UNCHANGED <<server, inbox, missed>>
       ELSE \E x \in Named(c, k, nodes) : \E gone \in Listings(Touching(x.id)) :
            /\ Written
            /\ nodes' = {n \in nodes : n.id # x.id}
            /\ edges' = edges \ Touching(x.id)
            /\ Emit([j \in 1..Len(gone) |-> Event("edge_deleted", gone[j])] \o <<Event("node_deleted", x)>>)
            /\ Answer(c, k, "done")
            /\ UNCHANGED active
    /\ UNCHANGED <<faults, view, cache, fetch, online>>

\* POST .../edges: both ends here and now, and no such edge yet (a unique index)
ServeCreateEdge(c, k) ==
    LET asked == request[c][k].row
        Here(i) == \E n \in nodes : n.id = i /\ n.range = request[c][k].range IN
    /\ Sent(c, k, "create edge")
    /\ IF ~Here(asked.from) \/ ~Here(asked.to) \/ \E d \in edges : d.from = asked.from /\ d.to = asked.to
       THEN Answer(c, k, "refused") /\ UNCHANGED <<server, inbox, missed>>
       ELSE \E i \in NextIds(edges, MaxEdge) : LET e == [asked EXCEPT !.id = i] IN
            /\ Written
            /\ edges' = edges \cup {e}
            /\ Emit(<<Event("edge_created", e)>>)
            /\ request' = [request EXCEPT ![c][k].at = "done", ![c][k].row = e]
            /\ UNCHANGED <<active, nodes>>
    /\ UNCHANGED <<faults, view, cache, fetch, online>>

\* DELETE .../edges/:edgeId
ServeDeleteEdge(c, k) ==
    /\ Sent(c, k, "delete edge")
    /\ IF Named(c, k, edges) = {}
       THEN Answer(c, k, "refused") /\ UNCHANGED <<server, inbox, missed>>
       ELSE \E x \in Named(c, k, edges) :
            /\ Written
            /\ edges' = {e \in edges : e.id # x.id}
            /\ Emit(<<Event("edge_deleted", x)>>)
            /\ Answer(c, k, "done")
            /\ UNCHANGED <<active, nodes>>
    /\ UNCHANGED <<faults, view, cache, fetch, online>>

\* startCyberRangeForTeam and the completion of a scenario, seen from here
SwitchScenario(r) ==
    /\ r # active /\ Fault
    /\ active' = r
    /\ UNCHANGED <<nodes, edges, writes, view, cache, fetch, request, online, inbox, missed>>

-------------------------------------------------------------------------------
(* A browser: mounting, reading                                             *)

\* A student may edit the scenario the page learnt is active; staff only look. Mounting a
\* query that is already being fetched waits for that answer. GET .../investigation-canvas
\* reads both tables at once: whatever is missed after this, and was not on its way
\* already, the answer will not make good. (A GET that takes long to reach the server is
\* a page shown later.)
Show(c, r) ==
    /\ view[c].range # r
    /\ view' = [view EXCEPT ![c] = [range |-> r, editable |-> c \in Authors /\ r = active]]
    /\ IF fetch[c][r] # NotAsked THEN UNCHANGED <<fetch, missed>>
       ELSE /\ fetch' = [fetch EXCEPT ![c][r] =
                            [at |-> "read", board |-> Board(r), behind |-> Len(inbox[c])]]
            /\ missed' = [missed EXCEPT ![c][r] = Nothing]
    /\ UNCHANGED <<server, faults, cache, request, online, inbox>>

Hide(c) ==
    /\ view[c] # Hidden /\ Fault
    /\ view' = [view EXCEPT ![c] = Hidden]
    /\ UNCHANGED <<server, cache, fetch, request, online, inbox, missed>>

\* something else than their own patches has changed the board that the mutations ks remember
On(c, r) == {k \in Slots : request[c][k] # NoMutation /\ request[c][k].range = r}
Disturbed(qs, ks) == [k \in Slots |-> IF k \in ks THEN [qs[k] EXCEPT !.disturbed = TRUE] ELSE qs[k]]

TakeRead(c, r) ==
    /\ fetch[c][r].at = "read"
    /\ cache' = [cache EXCEPT ![c][r] = fetch[c][r].board]
    /\ fetch' = [fetch EXCEPT ![c][r] = NotAsked]
    /\ request' = [request EXCEPT ![c] = Disturbed(@, On(c, r))]
    /\ UNCHANGED <<faults, server, view, online, inbox, missed>>

\* no answer, twice (retry: 1): what was cached stays
LoseRead(c, r) ==
    /\ fetch[c][r].at = "read" /\ Fault
    /\ fetch' = [fetch EXCEPT ![c][r] = NotAsked]
    /\ missed' = [missed EXCEPT ![c][r] = "no answer"]
    /\ UNCHANGED <<server, view, cache, request, online, inbox>>

-------------------------------------------------------------------------------
(* A browser: events. The handlers look at the team of an event, never at its scenario. *)

\* delivered after the server read the board, and about to be overwritten by it
Overtaken(c, r) == fetch[c][r].at = "read" /\ fetch[c][r].behind = 0
Foreign(c, r, ev) == view[c].range = r /\ ev.row.range # r /\ Patch(cache[c][r], ev) # cache[c][r]

\* one event less is older than the answer that f waits for
Heard(f) == IF f.at = "read" /\ f.behind > 0 THEN [f EXCEPT !.behind = @ - 1] ELSE f

Receive(c) ==
    LET ev == Head(inbox[c]) r == view[c].range IN
    /\ inbox[c] # <<>>
    /\ inbox' = [inbox EXCEPT ![c] = Tail(@)]
    /\ IF r = NoRange THEN UNCHANGED <<cache, request>>
       ELSE /\ cache' = [cache EXCEPT ![c][r] = Patch(@, ev)]
            /\ request' = [request EXCEPT ![c] = Disturbed(@, On(c, r))]
    /\ fetch' = [fetch EXCEPT ![c] = [q \in Scenarios |-> Heard(@[q])]]
    /\ missed' = [missed EXCEPT ![c] = [q \in Scenarios |->
                    Because(Because(@[q], "overtaken", Overtaken(c, q)), "other scenario", Foreign(c, q, ev))]]
    /\ UNCHANGED <<faults, server, view, online>>

\* the socket drops: what was on its way is lost, and nobody reads the board again
Disconnect(c) ==
    /\ online[c] /\ Fault
    /\ online' = [online EXCEPT ![c] = FALSE]
    /\ inbox' = [inbox EXCEPT ![c] = <<>>]
    /\ missed' = [missed EXCEPT ![c] = [r \in Scenarios |-> Because(@[r], "offline", inbox[c] # <<>>)]]
    /\ UNCHANGED <<server, view, cache, fetch, request>>

Reconnect(c) ==
    /\ ~online[c]
    /\ online' = [online EXCEPT ![c] = TRUE]
    /\ UNCHANGED <<faults, server, view, cache, fetch, request, inbox, missed>>

-------------------------------------------------------------------------------
(* A browser: mutations, each on its own                                    *)

\* onMutate: remember the board, with the changes under way that it shows, and show this one
\* ahead of the answer
Mutate(c, op, row, board) ==
    LET r == view[c].range IN
    /\ view[c].editable /\ cache[c][r].loaded
    /\ writes < MaxWrites
    /\ \E k \in Slots :
        /\ request[c][k] = NoMutation
        /\ request' = [request EXCEPT ![c][k] =
                         [at |-> "sent", op |-> op, range |-> r, row |-> row, previous |-> cache[c][r],
                          over |-> {j \in Slots : request[c][j] # NoMutation}, disturbed |-> FALSE]]
    /\ cache' = [cache EXCEPT ![c][r] = board]
    /\ UNCHANGED <<faults, server, view, fetch, online, inbox, missed>>

Shown(c) == cache[c][view[c].range]
CreateNode(c) == view[c].editable /\ \E l \in Labels :
    Mutate(c, "create node", [id |-> 1, range |-> view[c].range, label |-> l], Shown(c))
\* moveNode, editLabel and editBody
EditNode(c) == view[c].editable /\ \E n \in Shown(c).nodes, l \in Labels : l # n.label /\
    Mutate(c, "edit node", [n EXCEPT !.label = l], PutNode(Shown(c), [n EXCEPT !.label = l]))
DeleteNode(c) == view[c].editable /\ \E n \in Shown(c).nodes :
    Mutate(c, "delete node", n, DropNode(Shown(c), n.id))
CreateEdge(c) == view[c].editable /\ \E n, m \in Shown(c).nodes : n # m /\
    Mutate(c, "create edge", [id |-> 1, range |-> view[c].range, from |-> n.id, to |-> m.id], Shown(c))
DeleteEdge(c) == view[c].editable /\ \E e \in Shown(c).edges :
    Mutate(c, "delete edge", e, DropEdge(Shown(c), e.id))

Optimistic(q) == q.op \in {"edit node", "delete node", "delete edge"}

\* the mutation k is over, and the boards that ks remember are not what they would put back now
Settled(qs, k, ks) ==
    [j \in Slots |-> IF j = k \/ qs[j] = NoMutation THEN NoMutation
                     ELSE [qs[j] EXCEPT !.over = @ \ {k}, !.disturbed = @ \/ j \in ks]]

\* onSuccess: only a creation touches the cache. Its event may have gone by, and the
\* event of its deletion with it.
Announced(c, row) == \E p \in 1..Len(inbox[c]) : inbox[c][p].row = row
TakeSuccess(c, k) ==
    LET q == request[c][k]
        b == cache[c][q.range]
        shown == IF ~b.loaded \/ Optimistic(q) THEN b
                 ELSE IF q.op = "create node" THEN AddNode(b, q.row) ELSE AddEdge(b, q.row) IN
    /\ q.at = "done"
    /\ cache' = [cache EXCEPT ![c][q.range] = shown]
    /\ missed' = [missed EXCEPT ![c][q.range] =
                    Because(@, "late answer", shown # b /\ ~Announced(c, q.row))]
    /\ request' = [request EXCEPT ![c] = Settled(@, k, IF shown # b THEN On(c, q.range) ELSE {})]
    /\ UNCHANGED <<faults, server, view, fetch, online, inbox>>

\* onError: the board of before, whatever has arrived since, and without the changes made
\* since; those that remember a board with this change on it would bring it back
TakeRefusal(c, k) ==
    LET q == request[c][k]
        since == {j \in On(c, q.range) : k \in request[c][j].over} IN
    /\ q.at = "refused"
    /\ cache' = IF Optimistic(q) THEN [cache EXCEPT ![c][q.range] = q.previous] ELSE cache
    /\ missed' = [missed EXCEPT ![c][q.range] = Because(@, "put back", Optimistic(q) /\ q.disturbed)]
    /\ request' = [request EXCEPT ![c] = Settled(@, k, IF Optimistic(q) THEN since ELSE {})]
    /\ UNCHANGED <<faults, server, view, fetch, online, inbox>>

\* the request or its answer is lost: the browser cannot tell it from a refusal
LoseMutation(c, k) ==
    /\ request[c][k].at \in {"sent", "done"} /\ Fault
    /\ Answer(c, k, "refused")
    /\ UNCHANGED <<server, view, cache, fetch, online, inbox, missed>>

-------------------------------------------------------------------------------
CanvasInit ==
    /\ active \in Scenarios
    /\ nodes = {} /\ edges = {} /\ writes = 0 /\ faults = 0
    /\ view = [c \in Clients |-> Hidden]
    /\ cache = [c \in Clients |-> [r \in Scenarios |-> NoData]]
    /\ fetch = [c \in Clients |-> [r \in Scenarios |-> NotAsked]]
    /\ request = [c \in Clients |-> [k \in Slots |-> NoMutation]]
    /\ online = [c \in Clients |-> TRUE]
    /\ inbox = [c \in Clients |-> <<>>]
    /\ missed = [c \in Clients |-> [r \in Scenarios |-> Nothing]]

Serving(c, k) ==
    \/ ServeCreateNode(c, k) \/ ServeEditNode(c, k) \/ ServeDeleteNode(c, k)
    \/ ServeCreateEdge(c, k) \/ ServeDeleteEdge(c, k)
Editing(c) == CreateNode(c) \/ EditNode(c) \/ DeleteNode(c) \/ CreateEdge(c) \/ DeleteEdge(c)
Looking(c) ==
    \/ \E r \in Scenarios : Show(c, r) \/ TakeRead(c, r) \/ LoseRead(c, r)
    \/ Hide(c)
Listening(c) == Receive(c) \/ Disconnect(c) \/ Reconnect(c)
Settling(c, k) == TakeSuccess(c, k) \/ TakeRefusal(c, k) \/ LoseMutation(c, k)

CanvasNext ==
    \/ \E r \in Scenarios \cup {NoRange} : SwitchScenario(r)
    \/ \E c \in Clients, k \in Slots : Serving(c, k) \/ Settling(c, k)
    \/ \E c \in Clients : Editing(c) \/ Looking(c) \/ Listening(c)

CanvasSpec == CanvasInit /\ [][CanvasNext]_canvasVars

-------------------------------------------------------------------------------
(* Properties                                                               *)

\* While the team exists, a browser that has nothing on its way shows exactly the rows,
\* unless one of six things happened since the server last read the board for it: its
\* socket was down, an event arrived between that read and its answer, a refused change
\* put an older board back over newer events or answers, or one that showed another change
\* refused before, a creation was answered after the event of its deletion, an event of
\* another scenario was drawn on the board, or the reading itself failed
\* (InvestigationCanvasContainer: merge teammates' canvas edits without a refetch).
Quiet(c, r) ==
    /\ view[c].range = r /\ cache[c][r].loaded
    /\ inbox[c] = <<>> /\ fetch[c][r] = NotAsked /\ On(c, r) = {}
SettledBoardsAgree ==
    \A c \in Clients, r \in Scenarios :
        Quiet(c, r) /\ missed[c][r] = Nothing => cache[c][r] = Board(r)
==================================================================================
