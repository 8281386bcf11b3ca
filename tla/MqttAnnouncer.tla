--------------------------- MODULE MqttAnnouncer ---------------------------
(***************************************************************************)
(* The announcer over MQTT (mqttannouncer.cpp) with its client, a network  *)
(* and a server: START() after a reset, messages as the node announces     *)
(* them, each tried a second time, and run() in between.                   *)
(***************************************************************************)
EXTENDS MqttClient

CONSTANTS Topic, Payload \* of the messages, in the order in which they are announced

\* The length of a topic is written in two bytes.
ASSUME MessagesAssumption ==
  /\ Topic \in Seq(Seq(0 .. 255)) /\ Payload \in Seq(Seq(0 .. 255)) /\ Len(Payload) = Len(Topic)
  /\ \A i \in DOMAIN Topic : Len(Topic[i]) < 65536

VARIABLES
  job,                 \* what a call of the client is part of
  msg                  \* how many messages have been announced

vars == <<network, stream, client, pc, faults, job, msg, received>>

Message(i) == [topic |-> Topic[i], payload |-> Payload[i]]

Packet == SerializePublish(Topic[msg], Payload[msg])

Init ==
  /\ ClientInit
  /\ pc = "connect" /\ job = "start"
  /\ msg = 0

\* sendMessage().
SendMessage ==
  /\ pc' = IF ~link THEN "disconnect" ELSE IF isconnected THEN "publish" ELSE "connect"
  /\ job' = IF link THEN "first" ELSE "none"

\* RFID(), BELL() and the others; in START() right after its connect().
Announce ==
  /\ pc \in {"idle", "started"} /\ msg < Len(Topic)
  /\ msg' = msg + 1
  /\ SendMessage
  /\ UNCHANGED <<network, stream, client, received, faults>>

\* Behind connect(): the first try goes on without a connection, and fails.
Return(connected) ==
  pc' = CASE job = "start"  -> IF connected THEN "started" ELSE "idle"
          [] job = "first"  -> "publish"
          [] job = "second" -> IF connected THEN "publish" ELSE "idle"

Others == UNCHANGED <<msg, received>>

\* connect(), up to the packet of that name.
Connect ==
  /\ pc = "connect"
  /\ \/ (~link \/ ~ip) /\ Return(FALSE) /\ UNCHANGED stream
     \/ link /\ ip /\ ~good /\ NewStream("closed") /\ Return(FALSE)
     \/ link /\ ip /\ NewStream("open") /\ pc' = "sendConnect"
  /\ UNCHANGED <<network, client, faults, job>> /\ Others

StartSession == SendConnect(Return(FALSE)) /\ UNCHANGED job /\ Others

AwaitSession == Wait(Return(TRUE), Return(FALSE)) /\ UNCHANGED job /\ Others

\* (mutant) A message that was sent is sent once more.
BugDone ==
  IF job = "first" THEN pc' = "publish" /\ job' = "second" ELSE pc' = "idle" /\ job' = "none"

\* The message has been sent, or given up.
Done == pc' = "idle" /\ job' = "none"

\* (mutant) The second try has no connection if the first had none.
BugTryAgain == IF job = "first" THEN job' = "second" /\ pc' = "publish" ELSE Done

\* A message that could not be sent is tried once more, on a new connection if
\* the client has noticed that the old one is gone.
TryAgain ==
  IF job = "first" THEN job' = "second" /\ pc' = IF isconnected' THEN "publish" ELSE "connect"
  ELSE Done

PublishMessage == Publish(Message(msg), Packet, Done, TryAgain) /\ Others

\* run(), every two seconds.
Run ==
  /\ pc = "idle"
  /\ \/ link /\ pc' = "yield"
     \/ ~link /\ isconnected /\ pc' = "disconnect"
  /\ job' = "none"
  /\ UNCHANGED <<network, stream, client, faults>> /\ Others

Goodbye == Disconnect /\ UNCHANGED job /\ Others

Cycle == (Yield \/ Keepalive) /\ UNCHANGED job /\ Others

\* A reset of the node.  Nothing that was under way arrives.
Reset ==
  /\ ~good /\ faults < MaxFaults
  /\ NewStream("closed")
  /\ isconnected' = FALSE /\ ping' = FALSE /\ armed' = FALSE /\ due' = {}
  /\ pc' = "connect" /\ job' = "start"
  /\ faults' = faults + 1
  /\ UNCHANGED <<network, msg, received>>

ServerServes == Serve /\ UNCHANGED <<job, msg>>

Fault ==
  \/ (NetworkFault \/ Heal \/ Expire) /\ UNCHANGED job /\ Others
  \/ Reset

Node == Connect \/ StartSession \/ AwaitSession \/ PublishMessage \/ Goodbye \/ Cycle

Next == Announce \/ Run \/ Node \/ ServerServes \/ Fault

Spec == Init /\ [][Next]_vars

\* The node goes on with what it does, and so does the server.
FairSpec == Spec /\ WF_vars(Node) /\ WF_vars(ServerServes) /\ WF_vars(pc = "started" /\ Announce)

-----------------------------------------------------------------------------
\* While the client counts as connected, the server has a session with it on
\* the connection it uses, unless that is broken: an answer to an earlier
\* connection, a refusal or half of an answer do not count (MQTTClient.h:706).
SessionKnown == isconnected /\ tcp = "open" => session

\* A message has been announced and is still being tried.
Trying == job \in {"first", "second"} /\ pc # "idle"

Promise == INSTANCE AnnouncePromise WITH
  made <- msg,
  queue <- (IF cut THEN <<>> ELSE underway) \o (IF Trying THEN <<Message(msg)>> ELSE <<>>),
  torn  <- cut

\* Over breaking connections, resets and second tries, messages arrive in
\* order, once at most and unchanged (mqttannouncer.cpp:94), as long as none
\* was torn on the connection.
KeepsAnnouncePromise == Promise!AnnounceSpec

\* The stack takes what the client writes to a connection that is gone, and
\* does so until it notices.
Unnoticed == isconnected /\ tcp = "broken"

\* A write has failed, and with it the client has noticed.
Noticed == job = "second" /\ pc = "connect"

\* Once the network works, a message that fits the client's buffer arrives at
\* its first try, or at the second one (mqttannouncer.cpp:126-145), whatever
\* happened before: answers to earlier connections, refusals, a try that began
\* without a network.  Not claimed is a message that is written to a
\* connection which is gone, unless the write fails: "sometimes this triggers
\* it to notice the server went missing" (mqttannouncer.cpp:128).
Arrives ==
  \A i \in DOMAIN Topic :
    (/\ good /\ ~cut /\ msg = i /\ Packet # <<>>
     /\ Noticed \/ (Trying /\ job = "first" /\ ~Unnoticed)) ~>
      (\E k \in DOMAIN received : received[k] = Message(i))

=============================================================================
