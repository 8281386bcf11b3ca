------------------------------ MODULE AcServer ------------------------------
(***************************************************************************)
(* The node and the server: setup() and loop() (main.cpp), the watchdog    *)
(* (watchdog.cpp), and the requests that either makes (RealACServer.cpp,   *)
(* network.cpp), whose answers come in one character after the other over  *)
(* a connection that may fail at any of them.                              *)
(*                                                                         *)
(* Time is in seconds and passes only where the node waits: `unfed' is how *)
(* long it is since the watchdog was fed.  A wait that has a limit takes   *)
(* none of it or all of it; the parser waits for a character for as long   *)
(* as the connection is there.                                             *)
(***************************************************************************)
EXTENDS JsonItem

CONSTANTS
  Answer,          \* the items the server may answer with, by kind of request
  Text(_),         \* the characters it writes an item with
  ParserMakes(_),  \* what the parser makes of characters
  Period,          \* _period of the watchdog
  ConnectTime,     \* the time-out of EthernetClient::connect()
  HTTP_TIMEOUT,    \* RealACServer.cpp: for the status line, and for the headers
  CardTime,        \* SD.begin() of a card that does not answer
  DhcpTime,        \* Ethernet.begin() without a network
  MqttTime,        \* mqttannouncer.cpp: one command to the broker
  Beat,            \* the steps in which time passes for the parser
  HasMirror,       \* whether setup() has made a MaintainerCacheMaintainer
  MaxFaults        \* bound: connections that fall silent, and readers not found

Kinds == DOMAIN Answer

Answers == UNION {Answer[k] : k \in Kinds}

\* What the parser makes of the first so many characters of an answer.
Heard == [a \in Answers |-> [n \in 0 .. Len(Text(a)) |-> ParserMakes(SubSeq(Text(a), 1, n))]]

ASSUME ServerAssumption ==
  /\ {Period, ConnectTime, HTTP_TIMEOUT, CardTime, DhcpTime, MqttTime, Beat} \subseteq Nat \ {0}
  /\ HasMirror \in BOOLEAN /\ MaxFaults \in Nat
  /\ {"status", "card", "post", "maintainers"} \subseteq Kinds
  /\ \A a \in Answers : Len(Text(a)) \in Nat

VARIABLES
  stage,           \* what setup() or loop() is at
  phase,           \* what the request it has made is at
  kind,            \* which request that is
  answer,          \* what the server answers
  got,             \* how many characters of it have come
  link,            \* the connection: "up", "down" or "silent"
  result,          \* what the request has returned
  network,         \* main.cpp
  status, saved,   \* acsettings.status, and in the EEPROM
  unfed, armed,    \* the watchdog: the time since feed(), and whether it resets
  faults

request == <<phase, kind, answer, got, link, result>>
vars == <<stage, phase, kind, answer, got, link, result, network, status, saved, unfed, armed, faults>>

-----------------------------------------------------------------------------
(* RealACServer *)

NoAnswer == [ok |-> FALSE, num |-> -1, list |-> <<>>]

\* handleCommon(): numericStatus, which is -1 if there is none.
HandleCommon(json) ==
  LET field == GetObjectItem(json, <<"s">>) IN IF IsInt(field) THEN Head(field).valueint ELSE -1

\* getToolMaintainers(), which counts the entries in a byte.
ToolMaintainers(json) ==
  IF IsString(GetObjectItem(json, <<"error">>)) \/ json.type # "Array" THEN NoAnswer
  ELSE LET entries == SubSeq(json.child, 1, Len(json.child) % 256)
           names == SelectSeq(entries, LAMBDA c : c.type = "String")
       IN  [ok |-> TRUE, num |-> -1, list |-> [i \in DOMAIN names |-> names[i].valuestring]]

\* queryCard(), queryNodeStatus() and sendAndReceivePost(), as network.cpp
\* hands on what they return.
NumericStatus(json) == [ok |-> TRUE, num |-> HandleCommon(json), list |-> <<>>]

\* What a request makes of what has been read.
Handle(read) ==
  IF ~read.ok THEN NoAnswer
  ELSE IF kind = "maintainers" THEN ToolMaintainers(read.item)
  ELSE NumericStatus(read.item)

Bitten == armed /\ unfed >= Period

\* The time t after u, of which what is beyond the period is not told apart.
After(u, t) == IF u + t > Period THEN Period ELSE u + t
Later(t) == After(unfed, t)

Feed == unfed' = 0

\* The node waits, for no time or until the limit.
Waits(limit) == \E t \in {0, limit} : unfed' = Later(t)

Ask(k) ==
  /\ phase = "none"
  /\ phase' = "connect" /\ kind' = k
  /\ UNCHANGED <<answer, got, link, result>>

Fails ==
  /\ phase' = "answered" /\ result' = NoAnswer
  /\ UNCHANGED <<kind, answer, got, link>>

\* get() or post(): connects, or does not.
Connect ==
  /\ phase = "connect" /\ Waits(ConnectTime)
  /\ \/ Fails
     \/ phase' = "sent" /\ UNCHANGED <<kind, answer, got, link, result>>

\* responseStatusCode(): no answer or an error ends the request.
Response ==
  /\ phase = "sent" /\ Waits(HTTP_TIMEOUT)
  /\ \/ Fails
     \/ phase' = "headers" /\ UNCHANGED <<kind, answer, got, link, result>>

\* skipResponseHeaders(), whose result is ignored: the parser finds the
\* answer, or what is left of the headers and makes nothing of it.
SkipHeaders ==
  /\ phase = "headers" /\ Waits(HTTP_TIMEOUT)
  /\ \/ Fails
     \/ /\ answer' \in Answer[kind]
        /\ phase' = "body" /\ got' = 0 /\ link' = "up"
        /\ UNCHANGED <<kind, result>>

\* The parser has all it wants, or is told that the connection has ended.
Finish ==
  /\ phase = "body"
  /\ ~Heard[answer][got].s.starved \/ link = "down"
  /\ phase' = "answered" /\ result' = Handle(Heard[answer][got])
  /\ UNCHANGED <<kind, answer, got, link, unfed>>

\* getch() waits on while nothing comes; what comes on a connection that is
\* not silent takes no time.
Spin ==
  /\ phase = "body" /\ Heard[answer][got].s.starved /\ link = "silent"
  /\ unfed' = Later(Beat)
  /\ UNCHANGED request

Request ==
  /\ Connect \/ Response \/ SkipHeaders \/ Finish \/ Spin
  /\ UNCHANGED <<stage, network, status, saved, armed, faults>>

-----------------------------------------------------------------------------
(* The server and the network *)

Arrive ==
  /\ phase = "body" /\ link = "up" /\ got < Len(Text(answer))
  /\ got' = got + 1
  /\ UNCHANGED link

Close == phase = "body" /\ link = "up" /\ link' = "down" /\ UNCHANGED got

Silence ==
  /\ phase = "body" /\ link = "up" /\ faults < MaxFaults
  /\ link' = "silent" /\ faults' = faults + 1
  /\ UNCHANGED <<stage, phase, kind, answer, got, result, network, status, saved, unfed, armed>>

\* It may be heard of again.
Resume ==
  /\ phase = "body" /\ link = "silent" /\ link' = "up"
  /\ UNCHANGED <<stage, phase, kind, answer, got, result, network, status, saved, unfed, armed, faults>>

Serve == (Arrive \/ Close) /\ UNCHANGED <<stage, phase, kind, answer, result, network, status, saved, unfed, armed, faults>>

-----------------------------------------------------------------------------
(* setup() *)

\* What most calls of setup() leave alone.
Keeps == UNCHANGED <<network, status, saved, faults, request>>

\* begin() of the watchdog; the settings are those that were stored.
Begin ==
  /\ stage = "begin" /\ stage' = "cache"
  /\ armed' = TRUE /\ Feed
  /\ Keeps

OpenCache ==
  /\ stage = "cache" /\ stage' = "ethernet"
  /\ Waits(CardTime)
  /\ UNCHANGED armed /\ Keeps

\* feed() and disable(), Ethernet.begin().
EthernetBegin ==
  /\ stage = "ethernet" /\ stage' = "leased"
  /\ armed' = FALSE
  /\ network' \in BOOLEAN
  /\ unfed' = IF network' THEN 0 ELSE After(0, DhcpTime)
  /\ UNCHANGED <<status, saved, faults, request>>

\* (mutant) The watchdog is not fed before it is enabled.
BugLeased ==
  /\ stage = "leased" /\ stage' = "announce"
  /\ armed' = TRUE /\ UNCHANGED unfed
  /\ Keeps

\* (mutant) The watchdog stays disabled.
BugForgotten ==
  /\ stage = "leased" /\ stage' = "announce"
  /\ Feed /\ UNCHANGED armed
  /\ Keeps

\* feed() and enable(), the log, the choice of an announcer.
Leased ==
  /\ stage = "leased" /\ stage' = "announce"
  /\ Feed /\ armed' = TRUE
  /\ Keeps

\* A call of the announcer that waits, with a feed() before it or without.
Call(at, fed, limit, next) ==
  /\ stage = at /\ stage' \in next
  /\ \E t \in {0, limit} : unfed' = After(IF fed THEN 0 ELSE unfed, t)

\* START(): nothing to wait for without MQTT or a network, otherwise
\* connect() to the broker and to its session, publish(), and once more what
\* has not worked; then feed() for the reader.
Announce ==
  /\ \/ stage = "announce" /\ stage' = "announced" /\ UNCHANGED unfed
     \/ network /\ Call("announce", TRUE, ConnectTime, {"announced", "session"})
     \/ Call("session", TRUE, MqttTime, {"announced", "publish"})
     \/ Call("publish", TRUE, MqttTime, {"announced", "again", "lost"})
     \/ Call("lost", TRUE, ConnectTime, {"announced", "rejoin"})
     \/ Call("rejoin", TRUE, MqttTime, {"announced", "again"})
     \/ Call("again", FALSE, MqttTime, {"announced"})
     \/ stage = "announced" /\ stage' = "reader" /\ Feed
  /\ UNCHANGED armed /\ Keeps

\* The reader answers, or setup() halts.
Reader ==
  /\ stage = "reader" /\ Feed
  /\ \/ stage' = (IF network THEN "check" ELSE "loop") /\ UNCHANGED faults
     \/ stage' = "halt" /\ faults < MaxFaults /\ faults' = faults + 1
  /\ UNCHANGED <<network, status, saved, armed, request>>

Halt ==
  /\ stage = "halt"
  /\ unfed' = Later(Beat)
  /\ UNCHANGED <<stage, armed>> /\ Keeps

CheckStatus ==
  /\ stage = "check" /\ Ask("status")
  /\ UNCHANGED <<stage, network, status, saved, unfed, armed, faults>>

\* The request is over, and with it what was known of it.
Returned == phase = "answered"
Nothing == Typed("NULL")
Return ==
  /\ phase' = "none" /\ kind' = "status" /\ answer' = Nothing
  /\ got' = 0 /\ link' = "down" /\ result' = NoAnswer

\* (mutant) Whatever differs is stored.
BugStatusChecked ==
  /\ stage = "check" /\ Returned /\ Return
  /\ network' = (result.num >= 0)
  /\ status' = result.num /\ saved' = result.num
  /\ Feed
  /\ stage' = "loop"
  /\ UNCHANGED <<armed, faults>>

\* What setup() does with the status.
StatusChecked ==
  /\ stage = "check" /\ Returned /\ Return
  /\ network' = (result.num >= 0)
  /\ \/ result.num \in {0, 1} /\ status' = result.num /\ saved' = result.num
     \/ result.num \notin {0, 1} /\ UNCHANGED <<status, saved>>
  /\ Feed
  /\ stage' = "loop"
  /\ UNCHANGED <<armed, faults>>

Setup ==
  \/ Begin \/ OpenCache \/ EthernetBegin \/ Leased \/ Announce \/ Reader \/ Halt
  \/ CheckStatus \/ StatusChecked

-----------------------------------------------------------------------------
(* loop().  One pass is a chain of the calls that ask the server or store  *)
(* the settings.  Which of them a pass makes is left open: it is for the   *)
(* role to decide, whose own modules say how.                              *)

Stays == UNCHANGED <<network, status, saved, armed, faults>>

\* set_settings(), with all that is in RAM.
Stores == saved' = status /\ UNCHANGED <<network, status, armed, faults, unfed, request>>

\* The command line saves, or clears the run time.
CliStores == stage = "loop" /\ Stores /\ UNCHANGED stage

\* run() of the role begins with feed().
Run == stage = "loop" /\ Feed /\ stage' = "poll" /\ Stays /\ UNCHANGED request

Asks(at, k) == stage = at /\ Ask(k) /\ Stays /\ UNCHANGED <<stage, unfed>>

Skips(at, to) == stage = at /\ phase = "none" /\ stage' = to /\ Stays /\ UNCHANGED <<unfed, request>>

Goes(at, to) ==
  \/ Skips(at, to)
  \/ stage = at /\ Returned /\ Return /\ stage' = to /\ Stays /\ UNCHANGED unfed

\* stoprunning() stores the run time and tells the server; off() then tells
\* it that the tool is out of use.
Stopped(at, use, to) ==
  \/ stage = at /\ phase = "none" /\ Stores /\ UNCHANGED stage
  \/ Asks(at, "post") \/ Goes(at, use)
  \/ Asks(use, "post") \/ Goes(use, to)

\* is_enabled() asks every so often, and keeps what it is told in one bit:
\* of an answer that does not come, the lowest bit of -1.
StatusBit(n) == n % 2

IsEnabled(at, to) ==
  \/ Skips(at, to)
  \/ Asks(at, "status")
  \/ /\ stage = at /\ Returned /\ Return /\ stage' = to
     /\ status' = StatusBit(result.num)
     /\ UNCHANGED <<network, saved, armed, faults, unfed>>

\* deactivate(), when there is no card or a new one.
Deactivates == Skips("role", "deactivate") \/ IsEnabled("deactivate", "end") \/ Stopped("end", "use", "read")

\* card_has_access(), and the menu: it tells the server of a user or a
\* status, and stores that status whatever the server answers.
Reads == Skips("role", "read") \/ Asks("read", "card") \/ Goes("read", "menu")

Menu ==
  \/ Asks("menu", "post") \/ Goes("menu", "activate")
  \/ /\ stage = "menu" /\ Returned /\ Return /\ stage' = "activate"
     /\ \E s \in {0, 1} : status' = s /\ saved' = s
     /\ UNCHANGED <<network, armed, faults, unfed>>

\* activate(), or the pass was the menu's alone.
Activates ==
  \/ Skips("activate", "mirror") \/ IsEnabled("activate", "on")
  \/ Asks("on", "post") \/ Goes("on", "mirror")

Role == Stopped("poll", "off", "role") \/ Deactivates \/ Reads \/ Menu \/ Activates

\* The mirror asks only if there was a network when setup() asked for the
\* status.
Mirror == (HasMirror /\ network /\ Asks("mirror", "maintainers")) \/ Goes("mirror", "alive")

\* Every so often each card of the cache is asked for again, with a feed()
\* before each: one stands for them all.
Verify ==
  /\ stage = "alive" /\ phase = "none"
  /\ Ask("card") /\ Feed /\ Stays
  /\ stage' = "verify"

Verified == Goes("verify", "loop")

Loop == CliStores \/ Run \/ Role \/ Mirror \/ Verify \/ Verified \/ Skips("alive", "loop")

-----------------------------------------------------------------------------

\* The watchdog resets the node, whose settings are then the stored ones.
Bite ==
  /\ Bitten
  /\ stage' = "begin" /\ Return
  /\ unfed' = 0 /\ armed' = FALSE /\ network' = FALSE
  /\ status' = saved
  /\ UNCHANGED <<saved, faults>>

Node == ~Bitten /\ (Setup \/ Loop \/ Request)

Init ==
  /\ stage = "begin" /\ phase = "none" /\ kind = "status"
  /\ answer = Nothing /\ got = 0 /\ link = "down"
  /\ result = NoAnswer /\ network = FALSE /\ saved \in {0, 1} /\ status = saved
  /\ unfed = 0 /\ armed = FALSE /\ faults = 0

Next == Node \/ Bite \/ Serve \/ Silence \/ Resume

Spec == Init /\ [][Next]_vars

\* The node and its watchdog go on; so does a connection that has not
\* fallen silent.
FairSpec == Spec /\ WF_vars(Node) /\ WF_vars(Bite) /\ WF_vars(Serve)

-----------------------------------------------------------------------------

\* What an answer means, whole: the number under its status, or the names.
Meaning(k, a) ==
  IF k = "maintainers"
  THEN IF a.type # "Array" THEN NoAnswer
       ELSE [NoAnswer EXCEPT !.ok = TRUE, !.list =
               FlattenSeq([i \in DOMAIN a.child |->
                 IF a.child[i].type = "String" THEN <<a.child[i].valuestring>> ELSE <<>>])]
  ELSE LET said == {i \in DOMAIN a.child : a.child[i].name \in {<<"s">>, <<"S">>}
                                           /\ a.child[i].type = "Int"}
       IN  [ok |-> TRUE, list |-> <<>>,
            num |-> IF said = {} THEN -1 ELSE a.child[Min(said)].valueint]

\* What a request returns is what the server has said, or nothing: never
\* what the beginning of an answer looks like.  An answer that has come
\* whole is never lost.
AnswerWholeOrNone ==
  phase = "body" =>
    /\ Heard[answer][got].ok => Handle(Heard[answer][got]) = Meaning(kind, answer)
    /\ got = Len(Text(answer)) => Heard[answer][got].ok

SetupStages ==
  {"begin", "cache", "ethernet", "leased", "announce", "session", "publish", "lost", "rejoin",
   "again", "announced", "reader", "halt", "check"}

\* The card, DHCP, the broker and the reader never make the watchdog bite in
\* setup(), nor does a server before its headers are due: from there on the
\* waits for one answer, of 10, 3 and 3 seconds, add up to more than the
\* period of 15.
StartsInTime ==
  Bitten /\ stage \in SetupStages =>
    stage = "halt" \/ (stage = "check" /\ phase \in {"body", "answered"})

\* The status in RAM changes at the menu, in a reset to what was saved, by
\* what the server has said in a whole answer to the question for it, or, in
\* is_enabled(), by the bit of that or of no answer.  The one in the EEPROM
\* only ever becomes the one in RAM.
StatusIsAccountedFor ==
  [][/\ status' # status =>
          \/ stage = "menu"
          \/ Bitten /\ status' = saved
          \/ kind = "status" /\ stage = "check" /\ status' \in {0, 1}
             /\ status' = Meaning("status", answer).num
          \/ kind = "status" /\ stage \in {"deactivate", "activate"}
             /\ status' \in {StatusBit(Meaning("status", answer).num), StatusBit(-1)}
     /\ saved' # saved => saved' = status']_vars

\* However often a connection falls silent or the reader is not there, the
\* node is at its loop again, unless at boot after boot the server takes
\* longer over its answer than the period of the watchdog.
ComesBack == []<>(stage = "loop" \/ (stage = "check" /\ Bitten /\ link # "silent"))

=============================================================================
