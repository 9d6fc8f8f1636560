-------------------------------- MODULE Page --------------------------------
(* The page of a node (main.js) and the node's HTTP interface.  Every        *)
(* operation is asynchronous: a handler checks the inputs, captures them,    *)
(* sends a request and goes on when the answer comes; meanwhile other        *)
(* handlers run, and answers come in any order or not at all.  Work bounds   *)
(* the sections of the page that a user, and faults, meet in one behaviour.  *)
EXTENDS Naturals, Sequences, FiniteSets

CONSTANTS
  Pkt,         \* the packets the node may process
  Value,       \* what a user may type into an input, besides nothing
  Me,          \* the socket address of the node
  Source,      \* Source[p]: the sender of packet p
  Chat,        \* the packets that hold a chat message
  Work,        \* bound: the sets of sections that one behaviour may use
  MaxVersion,  \* bound: how often the node's tables change
  MaxOpen,     \* bound: how many operations a user starts at a time
  MaxFlash     \* bound: how many flash messages of a kind are shown

Section == {"unicast", "broadcast", "routing", "catalog", "data", "search",
            "naming", "packets"}
Empty == ""
Garbage == "error"   \* the text of an answer with a status other than 200

ASSUME PageAssumption ==
  /\ Me \notin Value /\ Source \in [Pkt -> Value \cup {Me}]
  /\ {Empty, Garbage, "searching", "nothing"} \cap (Value \cup {Me}) = {}
  /\ Chat \subseteq Pkt /\ Pkt \cap Value = {}
  /\ Work # {} /\ Work \subseteq SUBSET Section
  /\ MaxVersion \in Nat \ {0} /\ MaxOpen \in Nat /\ MaxFlash \in Nat

\* Room for what a user starts, and for the three calls of loading.
Slot == 1 .. MaxOpen + 3
Kind == {"error", "success"}
SearchOp == {"searchAll", "searchFirst"}
TextView == SearchOp \cup {"resolve", "upload", "socket"}

VARIABLES
  work,       \* the sections the user works in
  connected,  \* how many controllers of DomOrder Stimulus has connected
  initialized,  \* the controllers whose initialize did all that it does
  calls,      \* calls[s]: an operation that waits for its answer, or Idle
  flash,      \* flash[k]: how many flash messages of kind k are shown
  table, graph, content,  \* the versions that the views show, 0 for none
  shown,      \* shown[v]: the text in view v
  failed,     \* searches of which the last one to end has failed
  messages,   \* the chat messages shown
  saved,      \* the files saved by triggerDownload
  source,     \* the state of the EventSource
  routing, catalog,       \* the versions of the node's tables
  accepted,   \* the unicast messages the node took
  told        \* told[t]: how many changes of table t the page knows are done

pageVars == <<work, connected, initialized, calls, flash, table, graph, content,
              shown, failed, messages, saved, source>>
nodeVars == <<routing, catalog, accepted>>
vars == <<pageVars, nodeVars, told>>

Input == Value \cup {Empty}
Text == Input \cup {Me, Garbage}
Op == {"socket", "unicast", "table", "graph", "addPeer", "setEntry", "sendChat",
       "sendPrivate", "catalog", "add", "reading", "upload", "download",
       "searchAll", "searchFirst", "resolve", "tag"}
Call == [op : Op, main : Input, other : Input, since : Nat,
         st : {"sent", "ok", "bad", "lost"}, ver : Nat, text : Text]
Idle == [op |-> "idle"]

\* Mutant: the element of peerInfo comes after the sections.
DomOrder_PeerInfoLast ==
  <<"flash", "messaging", "unicast", "broadcast", "routing", "catalog",
    "dataSharing", "search", "naming", "packets", "peerInfo">>

\* The controllers in the order of the elements of node.html.
DomOrder == <<"flash", "peerInfo", "messaging", "unicast", "broadcast",
              "routing", "catalog", "dataSharing", "search", "naming",
              "packets">>
Connected(c) == \E i \in 1 .. connected : DomOrder[i] = c
Loaded == connected = Len(DomOrder)

TypeOK ==
  /\ work \in Work
  /\ connected \in 0 .. Len(DomOrder)
  /\ initialized \subseteq {DomOrder[i] : i \in DOMAIN DomOrder}
  /\ calls \in [Slot -> Call \cup {Idle}]
  /\ flash \in [Kind -> Nat]
  /\ table \in 0 .. routing /\ graph \in 0 .. routing /\ content \in 0 .. catalog
  /\ shown \in [TextView -> Text \cup {"searching", "nothing"}]
  /\ failed \subseteq SearchOp
  /\ messages \subseteq [class : {"sent", "received"}, peer : Value \cup {Me},
                         text : Value \cup Pkt]
  /\ saved \subseteq [name : Value, blob : Value]
  /\ source \in {"closed", "open", "broken"}
  /\ routing \in 1 .. MaxVersion /\ catalog \in 1 .. MaxVersion
  /\ accepted \subseteq [peer : Value, text : Value]
  /\ told \in [{"routing", "catalog"} -> Nat]

Init ==
  /\ work \in Work
  /\ connected = 0
  /\ initialized = {}
  /\ calls = [s \in Slot |-> Idle]
  /\ flash = [k \in Kind |-> 0]
  /\ table = 0 /\ graph = 0 /\ content = 0
  /\ shown = [v \in TextView |-> Empty]
  /\ failed = {}
  /\ messages = {} /\ saved = {}
  /\ source = "closed"
  /\ routing = 1 /\ catalog = 1
  /\ accepted = {}
  /\ told = [t \in {"routing", "catalog"} |-> 0]

-----------------------------------------------------------------------------
(* Flash *)

prints(kind, n) ==
  /\ flash[kind] + n <= MaxFlash
  /\ flash' = [flash EXCEPT ![kind] = @ + n]
printError == prints("error", 1)
printSuccess == prints("success", 1)

\* A flash goes when it is clicked away or after 4 seconds (the timer of one
\* that was clicked away removes nothing).
removeFlash(kind) ==
  /\ flash[kind] > 0
  /\ flash' = [flash EXCEPT ![kind] = @ - 1]
  /\ UNCHANGED <<work, connected, initialized, calls, table, graph, content,
                 shown, failed, messages, saved, source, nodeVars, told>>

-----------------------------------------------------------------------------
(* Requests and answers *)

Free == {s \in Slot : calls[s] = Idle}
Open(s, op) == calls[s].op = op
Request(op, main, other, since) ==
  [op |-> op, main |-> main, other |-> other, since |-> since, st |-> "sent",
   ver |-> 0, text |-> Empty]

\* The first free slot; the choice of slot means nothing.
fetch(c) == \E s \in Free : /\ \A t \in Free : s <= t
                            /\ calls' = [calls EXCEPT ![s] = c]
ends(s) == calls' = [calls EXCEPT ![s] = Idle]
continues(s, c) == calls' = [calls EXCEPT ![s] = c]

\* The operations of each section.
SectionOps ==
  [unicast |-> {"unicast"}, broadcast |-> {"sendChat", "sendPrivate"},
   routing |-> {"table", "graph", "addPeer", "setEntry"},
   catalog |-> {"catalog", "add"}, data |-> {"reading", "upload", "download"},
   search |-> SearchOp, naming |-> {"resolve", "tag"}, packets |-> {"socket"}]
WorkOps == UNION {SectionOps[sec] : sec \in work}

Answered(s, st, ver, text) ==
  calls' = [calls EXCEPT ![s] = [op |-> calls[s].op, main |-> calls[s].main,
              other |-> calls[s].other, since |-> calls[s].since, st |-> st,
              ver |-> ver, text |-> text]]

-----------------------------------------------------------------------------
(* The node: its HTTP handlers, and what changes its tables by itself        *)

Handles(s, ops) ==
  /\ calls[s].op \in ops /\ calls[s].st = "sent"
  /\ UNCHANGED <<work, connected, initialized, flash, table, graph, content,
                 shown, failed, messages, saved, source, told>>
Replies(s, ver, text) == Answered(s, "ok", ver, text) /\ UNCHANGED nodeVars

\* http.Error and return; the faults of a behaviour are in its sections.
httpError(s) ==
  /\ calls[s].op \in WorkOps
  /\ Answered(s, "bad", 0, Garbage)
  /\ UNCHANGED nodeVars

addressGet(s) == Handles(s, {"socket"}) /\ Replies(s, 0, Me)

routingGet(s) == /\ Handles(s, {"table", "graph"})
                 /\ Replies(s, routing, Empty) \/ httpError(s)

\* AddPeer and SetRoutingEntry change the routing table.
changesRouting(s) ==
  \/ /\ routing < MaxVersion
     /\ routing' = routing + 1
     /\ Answered(s, "ok", 0, Empty)
     /\ UNCHANGED <<catalog, accepted>>
  \/ httpError(s)
peerPost(s) == Handles(s, {"addPeer"}) /\ changesRouting(s)
routingPost(s) == Handles(s, {"setEntry"}) /\ changesRouting(s)

unicastPost(s) ==
  /\ Handles(s, {"unicast"})
  /\ \/ /\ accepted' = accepted \cup
             {[peer |-> calls[s].other, text |-> calls[s].main]}
        /\ Answered(s, "ok", 0, Empty)
        /\ UNCHANGED <<routing, catalog>>
     \/ httpError(s)

broadcastPost(s) == /\ Handles(s, {"sendChat", "sendPrivate"})
                    /\ Replies(s, 0, Empty) \/ httpError(s)

catalogGet(s) == /\ Handles(s, {"catalog"})
                 /\ Replies(s, catalog, Empty) \/ httpError(s)

catalogPost(s) ==
  /\ Handles(s, {"add"})
  /\ \/ /\ catalog < MaxVersion
        /\ catalog' = catalog + 1
        /\ Answered(s, "ok", 0, Empty)
        /\ UNCHANGED <<routing, accepted>>
     \/ httpError(s)

\* A file stands for its metahash.
uploadPost(s) == /\ Handles(s, {"upload"})
                 /\ Replies(s, 0, calls[s].main) \/ httpError(s)
downloadGet(s) == /\ Handles(s, {"download"})
                  /\ Replies(s, 0, calls[s].main) \/ httpError(s)

\* Something is found, or nothing.
Finds(s) == \E t \in {Empty, calls[s].main} : Replies(s, 0, t)
indexPost(s) == Handles(s, {"searchAll"}) /\ (Finds(s) \/ httpError(s))
searchPost(s) == Handles(s, {"searchFirst"}) /\ (Finds(s) \/ httpError(s))

namingPost(s) == Handles(s, {"tag"}) /\ (Replies(s, 0, Empty) \/ httpError(s))

\* Only an empty name is refused.
namingGet(s) ==
  /\ Handles(s, {"resolve"})
  /\ \/ calls[s].main # Empty /\ Finds(s)
     \/ calls[s].main = Empty /\ httpError(s)

Serve(s) ==
  \/ addressGet(s) \/ routingGet(s) \/ peerPost(s) \/ routingPost(s)
  \/ unicastPost(s) \/ broadcastPost(s) \/ catalogGet(s) \/ catalogPost(s)
  \/ uploadPost(s) \/ downloadGet(s) \/ indexPost(s) \/ searchPost(s)
  \/ namingPost(s) \/ namingGet(s)

\* Another server answers at the address in the query of the page.
otherServer(s) == Handles(s, {"socket"}) /\ httpError(s)

\* The connection fails before or after the node has seen the request.
loses(s) ==
  /\ calls[s].op \in WorkOps \ {"reading"} /\ calls[s].st \in {"sent", "ok"}
  /\ Answered(s, "lost", 0, Empty)
  /\ UNCHANGED <<work, connected, initialized, flash, table, graph, content,
                 shown, failed, messages, saved, source, nodeVars, told>>

\* Rumors of other nodes change the routing table.
handleRumor ==
  /\ Loaded /\ "routing" \in work
  /\ routing < MaxVersion /\ routing' = routing + 1
  /\ UNCHANGED <<pageVars, catalog, accepted, told>>

\* Replies to searches change the catalog.
handleSearchReplyMessage ==
  /\ Loaded /\ "catalog" \in work
  /\ catalog < MaxVersion /\ catalog' = catalog + 1
  /\ UNCHANGED <<pageVars, routing, accepted, told>>

-----------------------------------------------------------------------------
(* Answers at the page *)

\* Mutant: takes every answer for a success.
Ok_AnyStatus(s, op) == Open(s, op) /\ calls[s].st \in {"ok", "bad"}

\* BaseElement.fetch returns only an answer with status 200.
Ok(s, op) == Open(s, op) /\ calls[s].st = "ok"
Failed(s, op) == Open(s, op) /\ calls[s].st \in {"bad", "lost"}

-----------------------------------------------------------------------------
(* Loading: Stimulus connects the controllers one after the other, and calls *)
(* initialize before anybody can look the controller up.                     *)

\* The node's first table has version 1, each change makes the next one.
tableRequest(known) == Request("table", Empty, Empty, known + 1)
catalogRequest(known) == Request("catalog", Empty, Empty, known + 1)

\* this.peerInfo is null.
NoPeerInfo == ~Connected("peerInfo")

Connects(c) ==
  /\ ~Loaded /\ DomOrder[connected + 1] = c
  /\ connected' = connected + 1
  /\ UNCHANGED <<work, flash, table, graph, content, shown, failed, messages,
                 saved, nodeVars, told>>
Initializes(c) == initialized' = initialized \cup {c}

initPeerInfo ==
  /\ Connects("peerInfo") /\ Initializes("peerInfo")
  /\ fetch(Request("socket", Empty, Empty, 0))
  /\ UNCHANGED source

\* Without peerInfo, the promise of the asynchronous update is rejected: the
\* controller connects but has asked for nothing.
initRouting ==
  /\ Connects("routing")
  /\ IF NoPeerInfo THEN UNCHANGED <<initialized, calls>>
     ELSE Initializes("routing") /\ fetch(tableRequest(told["routing"]))
  /\ UNCHANGED source

initCatalog ==
  /\ Connects("catalog")
  /\ IF NoPeerInfo THEN UNCHANGED <<initialized, calls>>
     ELSE Initializes("catalog") /\ fetch(catalogRequest(told["catalog"]))
  /\ UNCHANGED source

\* Without peerInfo, initialize throws before it opens the EventSource.
initPackets ==
  /\ Connects("packets")
  /\ IF NoPeerInfo THEN UNCHANGED <<initialized, source>>
     ELSE Initializes("packets") /\ source' = "open"
  /\ UNCHANGED calls

\* The other controllers have no initialize.
initOther ==
  /\ \E c \in {DomOrder[i] : i \in DOMAIN DomOrder}
             \ {"peerInfo", "routing", "catalog", "packets"} :
       Connects(c) /\ Initializes(c)
  /\ UNCHANGED <<calls, source>>

connect == initPeerInfo \/ initRouting \/ initCatalog \/ initPackets \/ initOther

\* PeerInfo.initialize goes on: it takes any answer for the address.
socketAddress(s) ==
  /\ \/ /\ Open(s, "socket") /\ calls[s].st \in {"ok", "bad"}
        /\ shown' = [shown EXCEPT !["socket"] = calls[s].text]
        /\ UNCHANGED flash
     \/ /\ Open(s, "socket") /\ calls[s].st = "lost"
        /\ printError
        /\ UNCHANGED shown
  /\ ends(s)
  /\ UNCHANGED <<work, connected, initialized, table, graph, content, failed,
                 messages, saved, source, nodeVars, told>>

-----------------------------------------------------------------------------
(* The forms: Submit is what the handlers have in common up to their await.  *)

checkInputs(els) == Empty \notin els

\* When a user clicks: the page has loaded.  The rest are bounds: the section
\* is one of the behaviour's, and so are the calls that wait, fewer than
\* MaxOpen.
MayClick(sec) ==
  /\ Loaded
  /\ sec \in work
  /\ Cardinality(Slot \ Free) < MaxOpen
  /\ \A s \in Slot \ Free : calls[s].op \in WorkOps

\* main and other are the inputs captured before the await, where what follows
\* the await uses them.
Invalid == printError /\ UNCHANGED calls
Submit(op, els, main, other) ==
  \/ ~checkInputs(els) /\ Invalid
  \/ /\ checkInputs(els)
     /\ fetch(Request(op, main, other, 0))
     /\ UNCHANGED flash

\* Nothing that a handler of a form changes.
Apart == UNCHANGED <<work, connected, initialized, source, nodeVars>>
viewVars == <<table, graph, content, shown, failed, messages, saved>>

\* An operation fails: the catch clause reports it.
Reports(s, op) == Failed(s, op) /\ printError /\ ends(s)

-----------------------------------------------------------------------------
(* Unicast and Broadcast *)

send(message, destination) ==
  /\ MayClick("unicast")
  /\ Submit("unicast", {message, destination}, message, destination)
  /\ UNCHANGED <<viewVars, told>> /\ Apart

\* Mutant: reads the inputs again after the await, when they hold anything.
sendEnds_Reread(s) ==
  /\ \/ /\ Ok(s, "unicast") /\ ends(s)
        /\ \E m, d \in Value : messages' = messages \cup
             {[class |-> "sent", peer |-> d, text |-> m]}
        /\ UNCHANGED flash
     \/ Reports(s, "unicast") /\ UNCHANGED messages
  /\ UNCHANGED <<table, graph, content, shown, failed, saved, told>> /\ Apart

sendEnds(s) ==
  /\ \/ /\ Ok(s, "unicast") /\ ends(s)
        /\ messages' = messages \cup
             {[class |-> "sent", peer |-> calls[s].other, text |-> calls[s].main]}
        /\ UNCHANGED flash
     \/ Reports(s, "unicast") /\ UNCHANGED messages
  /\ UNCHANGED <<table, graph, content, shown, failed, saved, told>> /\ Apart

sendChat(message) ==
  /\ MayClick("broadcast")
  /\ Submit("sendChat", {message}, Empty, Empty)
  /\ UNCHANGED <<viewVars, told>> /\ Apart

sendPrivate(message, recipients) ==
  /\ MayClick("broadcast")
  /\ Submit("sendPrivate", {message, recipients}, Empty, Empty)
  /\ UNCHANGED <<viewVars, told>> /\ Apart

\* sendChat, sendPrivate and Naming.tag only say how they ended.
JustSays == {"sendChat", "sendPrivate", "tag"}
saysEnds(s) ==
  /\ \E op \in JustSays :
       \/ Ok(s, op) /\ printSuccess /\ ends(s)
       \/ Reports(s, op)
  /\ UNCHANGED <<viewVars, told>> /\ Apart

-----------------------------------------------------------------------------
(* Routing *)

updateRouting ==
  /\ MayClick("routing")
  /\ fetch(tableRequest(told["routing"]))
  /\ UNCHANGED <<flash, viewVars, told>> /\ Apart

\* The table is there, or an error; in both cases update asks for the graph.
updateTable(s) ==
  /\ \/ /\ Ok(s, "table") /\ table' = calls[s].ver /\ printSuccess
        /\ continues(s, Request("graph", Empty, Empty, calls[s].ver))
     \/ /\ Failed(s, "table") /\ printError /\ UNCHANGED table
        /\ continues(s, Request("graph", Empty, Empty, calls[s].since))
  /\ UNCHANGED <<graph, content, shown, failed, messages, saved, told>> /\ Apart

\* Mutant: does not report that the graph cannot be shown.
updateGraph_Silent(s) ==
  /\ \/ Ok(s, "graph") /\ graph' = calls[s].ver
     \/ Failed(s, "graph") /\ UNCHANGED graph
  /\ ends(s)
  /\ UNCHANGED <<flash, table, content, shown, failed, messages, saved, told>>
  /\ Apart

updateGraph(s) ==
  /\ \/ /\ Ok(s, "graph") /\ graph' = calls[s].ver /\ ends(s)
        /\ UNCHANGED flash
     \/ Reports(s, "graph") /\ UNCHANGED graph
  /\ UNCHANGED <<table, content, shown, failed, messages, saved, told>> /\ Apart

addPeer(peer) ==
  /\ MayClick("routing")
  /\ Submit("addPeer", {peer}, Empty, Empty)
  /\ UNCHANGED <<viewVars, told>> /\ Apart

\* An empty relay deletes the entry; either way the table changes.
setEntry(origin, relay) ==
  /\ MayClick("routing")
  /\ Submit("setEntry", {origin}, Empty, Empty)
  /\ UNCHANGED <<viewVars, told>> /\ Apart

\* Mutant: reports and updates without waiting for the answer.
writeRouting_NoAwait(s) ==
  /\ \E op \in {"addPeer", "setEntry"} :
       /\ Open(s, op)
       /\ printSuccess
       /\ told' = [told EXCEPT !["routing"] = @ + 1]
       /\ continues(s, tableRequest(told["routing"] + 1))
  /\ UNCHANGED viewVars /\ Apart

\* addPeer and setEntry go on: success is reported and the views are updated.
writeRouting(s) ==
  /\ \E op \in {"addPeer", "setEntry"} :
       \/ /\ Ok(s, op)
          /\ printSuccess
          /\ told' = [told EXCEPT !["routing"] = @ + 1]
          /\ continues(s, tableRequest(told["routing"] + 1))
       \/ Reports(s, op) /\ UNCHANGED told
  /\ UNCHANGED viewVars /\ Apart

-----------------------------------------------------------------------------
(* Catalog *)

updateCatalog ==
  /\ MayClick("catalog")
  /\ fetch(catalogRequest(told["catalog"]))
  /\ UNCHANGED <<flash, viewVars, told>> /\ Apart

updateContent(s) ==
  /\ \/ /\ Ok(s, "catalog") /\ content' = calls[s].ver /\ printSuccess /\ ends(s)
     \/ Reports(s, "catalog") /\ UNCHANGED content
  /\ UNCHANGED <<table, graph, shown, failed, messages, saved, told>> /\ Apart

add(key, value) ==
  /\ MayClick("catalog")
  /\ Submit("add", {key, value}, Empty, Empty)
  /\ UNCHANGED <<viewVars, told>> /\ Apart

\* Success is not reported, only the update that follows is.
addEnds(s) ==
  /\ \/ /\ Ok(s, "add")
        /\ told' = [told EXCEPT !["catalog"] = @ + 1]
        /\ continues(s, catalogRequest(told["catalog"] + 1))
        /\ UNCHANGED flash
     \/ Reports(s, "add") /\ UNCHANGED told
  /\ UNCHANGED viewVars /\ Apart

-----------------------------------------------------------------------------
(* DataSharing *)

\* A chosen file is read first; Empty stands for no file.
upload(file) ==
  /\ MayClick("data")
  /\ Submit("reading", {file}, file, Empty)
  /\ UNCHANGED <<viewVars, told>> /\ Apart

\* The reader makes progress, has the file, or fails, which nobody listens to.
progress(s) ==
  /\ Open(s, "reading")
  /\ printSuccess
  /\ UNCHANGED <<calls, viewVars, told>> /\ Apart

load(s) ==
  /\ Open(s, "reading")
  /\ continues(s, Request("upload", calls[s].main, Empty, 0))
  /\ UNCHANGED <<flash, viewVars, told>> /\ Apart

readerFails(s) ==
  /\ Open(s, "reading")
  /\ ends(s)
  /\ UNCHANGED <<flash, viewVars, told>> /\ Apart

uploadEnds(s) ==
  /\ \/ /\ Ok(s, "upload") /\ printSuccess /\ ends(s)
        /\ shown' = [shown EXCEPT !["upload"] = calls[s].text]
     \/ Reports(s, "upload") /\ UNCHANGED shown
  /\ UNCHANGED <<table, graph, content, failed, messages, saved, told>> /\ Apart

download(metahash) ==
  /\ MayClick("data")
  /\ Submit("download", {metahash}, metahash, Empty)
  /\ UNCHANGED <<viewVars, told>> /\ Apart

\* Mutant: names the file after what the input holds by then.
downloadEnds_Reread(s) ==
  /\ \/ /\ Ok(s, "download") /\ printSuccess /\ ends(s)
        /\ \E m \in Value :
             saved' = saved \cup {[name |-> m, blob |-> calls[s].text]}
     \/ Reports(s, "download") /\ UNCHANGED saved
  /\ UNCHANGED <<table, graph, content, shown, failed, messages, told>> /\ Apart

downloadEnds(s) ==
  /\ \/ /\ Ok(s, "download") /\ printSuccess /\ ends(s)
        /\ saved' = saved \cup {[name |-> calls[s].main, blob |-> calls[s].text]}
     \/ Reports(s, "download") /\ UNCHANGED saved
  /\ UNCHANGED <<table, graph, content, shown, failed, messages, told>> /\ Apart

-----------------------------------------------------------------------------
(* Search and Naming *)

\* The placeholder is shown before the await.
search(op, pattern, other) ==
  /\ MayClick("search")
  /\ Submit(op, {pattern, other}, pattern, Empty)
  /\ shown' = IF checkInputs({pattern, other})
              THEN [shown EXCEPT ![op] = "searching"] ELSE shown
  /\ UNCHANGED <<table, graph, content, failed, messages, saved, told>> /\ Apart

\* A failed search leaves the placeholder.
searchFails(s, op) ==
  /\ Reports(s, op)
  /\ failed' = failed \cup {op}
  /\ UNCHANGED shown

searchAllEnds(s) ==
  /\ \/ /\ Ok(s, "searchAll") /\ printSuccess /\ ends(s)
        /\ shown' = [shown EXCEPT !["searchAll"] = calls[s].text]
        /\ failed' = failed \ {"searchAll"}
     \/ searchFails(s, "searchAll")
  /\ UNCHANGED <<table, graph, content, messages, saved, told>> /\ Apart

\* Mutant: shows nothing when nothing was found.
searchFirstEnds_NoText(s) ==
  /\ \/ /\ Ok(s, "searchFirst") /\ ends(s)
        /\ prints("success", 2)
        /\ shown' = [shown EXCEPT !["searchFirst"] =
                       IF calls[s].text = Empty THEN @ ELSE calls[s].text]
        /\ failed' = failed \ {"searchFirst"}
     \/ searchFails(s, "searchFirst")
  /\ UNCHANGED <<table, graph, content, messages, saved, told>> /\ Apart

\* Reports success twice.
searchFirstEnds(s) ==
  /\ \/ /\ Ok(s, "searchFirst") /\ ends(s)
        /\ prints("success", 2)
        /\ shown' = [shown EXCEPT !["searchFirst"] =
                       IF calls[s].text = Empty THEN "nothing" ELSE calls[s].text]
        /\ failed' = failed \ {"searchFirst"}
     \/ searchFails(s, "searchFirst")
  /\ UNCHANGED <<table, graph, content, messages, saved, told>> /\ Apart

\* resolve does not look at the result of checkInputs.
resolve(filename) ==
  /\ MayClick("naming")
  /\ \/ ~checkInputs({filename}) /\ printError
     \/ checkInputs({filename}) /\ UNCHANGED flash
  /\ fetch(Request("resolve", filename, Empty, 0))
  /\ UNCHANGED <<viewVars, told>> /\ Apart

resolveEnds(s) ==
  /\ \/ /\ Ok(s, "resolve") /\ printSuccess /\ ends(s)
        /\ shown' = [shown EXCEPT !["resolve"] =
                       IF calls[s].text = Empty THEN "nothing" ELSE calls[s].text]
     \/ Reports(s, "resolve") /\ UNCHANGED shown
  /\ UNCHANGED <<table, graph, content, failed, messages, saved, told>> /\ Apart

tag(filename, metahash) ==
  /\ MayClick("naming")
  /\ Submit("tag", {filename, metahash}, Empty, Empty)
  /\ UNCHANGED <<viewVars, told>> /\ Apart

-----------------------------------------------------------------------------
(* Packets *)

Class(p) == IF Source[p] = shown["socket"] THEN "sent" ELSE "received"

\* An event of the EventSource; a chat message is also shown as one.  Which
\* packets come, and in which order, is the subject of module Feed.
packetMessage(p) ==
  /\ Loaded
  /\ "packets" \in work /\ source = "open"
  /\ messages' = messages \cup
       {[class |-> Class(p), peer |-> Source[p], text |-> c] : c \in Chat \cap {p}}
  /\ UNCHANGED <<work, connected, initialized, calls, flash, table, graph,
                 content, shown, failed, saved, source, nodeVars, told>>

\* The connection breaks: the page says that it stopped listening, and the
\* browser connects again.
packetError ==
  /\ Loaded
  /\ "packets" \in work /\ source = "open"
  /\ source' = "broken"
  /\ printError
  /\ UNCHANGED <<work, connected, initialized, calls, viewVars, nodeVars, told>>

reconnect ==
  /\ source = "broken"
  /\ source' = "open"
  /\ UNCHANGED <<work, connected, initialized, calls, flash, viewVars, nodeVars,
                 told>>

-----------------------------------------------------------------------------

Click ==
  \/ \E m \in Input : sendChat(m) \/ addPeer(m) \/ upload(m) \/ download(m)
                      \/ resolve(m)
  \/ \E m, o \in Input : send(m, o) \/ sendPrivate(m, o) \/ setEntry(m, o)
                         \/ add(m, o) \/ tag(m, o)
                         \/ search("searchAll", m, o) \/ search("searchFirst", m, o)
  \/ updateRouting \/ updateCatalog

Answer(s) ==
  \/ socketAddress(s) \/ sendEnds(s) \/ saysEnds(s) \/ updateTable(s)
  \/ updateGraph(s) \/ writeRouting(s) \/ updateContent(s) \/ addEnds(s)
  \/ progress(s) \/ load(s) \/ readerFails(s) \/ uploadEnds(s) \/ downloadEnds(s)
  \/ searchAllEnds(s) \/ searchFirstEnds(s) \/ resolveEnds(s)

Next ==
  \/ connect
  \/ Click
  \/ \E s \in Slot : \/ Loaded /\ Answer(s)
                     \/ Serve(s) \/ otherServer(s) \/ loses(s)
  \/ \E kind \in Kind : removeFlash(kind)
  \/ handleRumor \/ handleSearchReplyMessage
  \/ \E p \in Pkt : packetMessage(p)
  \/ packetError \/ reconnect

Spec == Init /\ [][Next]_vars

-----------------------------------------------------------------------------
(* Properties *)

\* When a controller initializes, the ones it uses are connected already: no
\* load of the page is lost to a null controller.
AllInitialize == \A i \in 1 .. connected : DomOrder[i] \in initialized

Completes(s, op) == Ok(s, op) /\ calls'[s].op # op

\* Routing.update and Catalog.update never show a table older than the changes
\* whose success the page had seen when the update began, and the graph of an
\* update is not older than the table it has just shown.
NeverOlder ==
  [][\A s \in Slot :
       /\ Completes(s, "table") => table' >= calls[s].since
       /\ Completes(s, "graph") => graph' >= calls[s].since
       /\ Completes(s, "catalog") => content' >= calls[s].since]_vars

\* A message shown as sent is one that the node took, as it took it, or one in
\* a packet of this node: whatever the inputs hold when the answer comes, and
\* whether or not the page knows the socket address by then.
SentIsTrue ==
  \A m \in messages :
    m.class = "sent" =>
      IF m.text \in Pkt THEN Source[m.text] = Me
      ELSE [peer |-> m.peer, text |-> m.text] \in accepted

\* A file is saved under the metahash its content was downloaded for.
SavedAsAsked == \A f \in saved : f.name = f.blob

\* A view says "searching" only while such a search waits for its answer, or
\* when the last one to end has failed.
PlaceholderEnds ==
  \A v \in SearchOp :
    shown[v] = "searching" => v \in failed \/ \E s \in Slot : Open(s, v)

\* A call ends, or goes on, because it failed.
Fails(s) ==
  /\ calls[s] # Idle /\ calls'[s] # calls[s]
  /\ \/ calls[s].st \in {"bad", "lost"}
     \/ Open(s, "reading") /\ calls'[s] = Idle

\* The two failures that the page does not see: PeerInfo takes the text of a
\* refusal for the address, and nobody listens to the error of a file reader.
Unnoticed(s) == Open(s, "reading") \/ (Open(s, "socket") /\ calls[s].st = "bad")

\* Every failure of an operation prints one error message of its own, but for
\* a refused socket address and a file that cannot be read, which print none.
FailuresReported ==
  [][\A s \in Slot :
       Fails(s) =>
         flash'["error"] = flash["error"] + (IF Unnoticed(s) THEN 0 ELSE 1)]_vars
=============================================================================
