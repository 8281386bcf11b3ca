--------------------------- MODULE AcServerProofs ---------------------------
(***************************************************************************)
(* What the node and its watchdog do to each other in setup(), and what is *)
(* kept of the server's answers, for every server, connection and time.    *)
(***************************************************************************)
EXTENDS AcServer, TLAPS

InLoop ==
  {"loop", "poll", "off", "role", "deactivate", "end", "use", "read", "menu", "activate", "on",
   "mirror", "alive", "verify"}
Phases == {"none", "connect", "sent", "headers", "body", "answered"}

ServerTypeOK ==
  /\ stage \in SetupStages \cup InLoop
  /\ phase \in Phases
  /\ unfed \in Nat
  /\ armed \in BOOLEAN

(***************************************************************************)
(* The waits of setup() between two feeds, up to the headers of the answer *)
(* about the status, are shorter than the period of the watchdog.          *)
(***************************************************************************)
WaitsFit ==
  /\ CardTime < Period
  /\ ConnectTime + HTTP_TIMEOUT < Period
  /\ MqttTime + MqttTime < Period

(***************************************************************************)
(* How far the watchdog may have counted at each place of setup().  It     *)
(* counts on over Ethernet.begin(), which is excused by disable() and a    *)
(* later feed(), and over the answer of the server, which is not.          *)
(***************************************************************************)
Fresh == {"cache", "announce", "reader"}
Waiting == {"ethernet", "session", "publish", "lost", "rejoin", "announced"}

UnfedInv ==
  /\ stage \in SetupStages \ {"check"} => phase = "none"
  /\ stage \in {"begin", "leased"} => ~armed
  /\ stage \in Fresh => unfed = 0
  /\ stage \in Waiting => unfed < Period
  /\ stage = "again" => unfed <= MqttTime
  /\ stage = "check" /\ phase \in {"none", "connect"} => unfed = 0
  /\ stage = "check" /\ phase = "sent" => unfed <= ConnectTime
  /\ stage = "check" /\ phase = "headers" => unfed <= ConnectTime + HTTP_TIMEOUT

(* A wait adds to a time, up to the bound that is kept.                    *)
LEMMA WaitAdds ==
  ASSUME NEW t \in Nat, NEW u \in Nat
  PROVE  After(u, t) \in Nat /\ After(u, t) <= u + t
BY ServerAssumption DEF After

(* The times are numbers.                                                  *)
LEMMA Times ==
  /\ Period \in Nat \ {0} /\ ConnectTime \in Nat /\ HTTP_TIMEOUT \in Nat
  /\ CardTime \in Nat /\ DhcpTime \in Nat /\ MqttTime \in Nat /\ Beat \in Nat
BY ServerAssumption

(* The node waits no longer than the limit.                                *)
LEMMA WaitsAdds ==
  ASSUME unfed \in Nat, NEW limit \in Nat, Waits(limit)
  PROVE  unfed' \in Nat /\ unfed' <= unfed + limit
<1>1. PICK t \in {0, limit} : unfed' = After(unfed, t)
  BY DEF Waits, Later
<1>2. t \in Nat /\ t <= limit
  OBVIOUS
<1>3. unfed' \in Nat /\ unfed' <= unfed + t
  BY <1>1, <1>2, WaitAdds
<1> QED BY <1>2, <1>3

-----------------------------------------------------------------------------
(* The requests                                                            *)

(* A request goes on, and with it the time since feed().                   *)
LEMMA RequestTime ==
  ASSUME ServerTypeOK, UnfedInv, WaitsFit, ~Bitten, Request
  PROVE  ServerTypeOK' /\ UnfedInv'
<1>1. UNCHANGED <<stage, armed>> /\ phase # "none"
  BY DEF Request, Connect, Response, SkipHeaders, Finish, Spin
<1>2. stage \notin SetupStages \ {"check"}
  BY <1>1 DEF UnfedInv
<1>3. stage' \notin Fresh \cup Waiting \cup {"begin", "leased", "again"}
  BY <1>1, <1>2 DEF SetupStages, Fresh, Waiting
<1>4. ASSUME phase' \in Phases, unfed' \in Nat,
             stage = "check" /\ phase' \in {"none", "connect"} => unfed' = 0,
             stage = "check" /\ phase' = "sent" => unfed' <= ConnectTime,
             stage = "check" /\ phase' = "headers" => unfed' <= ConnectTime + HTTP_TIMEOUT
      PROVE  ServerTypeOK' /\ UnfedInv'
  BY <1>1, <1>2, <1>3, <1>4 DEF ServerTypeOK, UnfedInv
<1>5. unfed \in Nat
  BY DEF ServerTypeOK
<1>6. CASE Connect
  <2>1. unfed' \in Nat /\ unfed' <= unfed + ConnectTime
    BY <1>5, <1>6, Times, WaitsAdds DEF Connect
  <2>2. stage = "check" => unfed' <= ConnectTime
    BY <1>6, <2>1, Times DEF Connect, UnfedInv
  <2> QED BY <1>4, <1>6, <2>1, <2>2 DEF Connect, Fails, Phases
<1>7. CASE Response
  <2>1. unfed' \in Nat /\ unfed' <= unfed + HTTP_TIMEOUT
    BY <1>5, <1>7, Times, WaitsAdds DEF Response
  <2>2. stage = "check" => unfed' <= ConnectTime + HTTP_TIMEOUT
    BY <1>5, <1>7, <2>1, Times DEF Response, UnfedInv
  <2> QED BY <1>4, <1>7, <2>1, <2>2 DEF Response, Fails, Phases
<1>8. CASE SkipHeaders
  <2>1. unfed' \in Nat
    BY <1>5, <1>8, Times, WaitsAdds DEF SkipHeaders
  <2> QED BY <1>4, <1>8, <2>1 DEF SkipHeaders, Fails, Phases
<1>9. CASE Finish
  BY <1>4, <1>5, <1>9 DEF Request, Finish, Phases
<1>10. CASE Spin
  <2>1. unfed' \in Nat
    BY <1>5, <1>10, Times, WaitAdds DEF Spin, Later
  <2> QED BY <1>4, <1>10, <2>1 DEF Spin, request, Phases
<1> QED BY <1>6, <1>7, <1>8, <1>9, <1>10 DEF Request

-----------------------------------------------------------------------------
(* setup() and loop()                                                      *)

(* A call that waits leaves its own time on the watchdog, if it feeds it,  *)
(* or adds it.                                                             *)
LEMMA FedCall ==
  ASSUME NEW at, NEW limit \in Nat, NEW next, Call(at, TRUE, limit, next)
  PROVE  unfed' \in Nat /\ unfed' <= limit /\ stage = at /\ stage' \in next
<1>1. PICK t \in {0, limit} : unfed' = After(0, t)
  BY DEF Call
<1>2. t \in Nat /\ t <= limit
  OBVIOUS
<1>3. unfed' \in Nat /\ unfed' <= 0 + t
  BY <1>1, <1>2, WaitAdds
<1> QED BY <1>2, <1>3 DEF Call

LEMMA UnfedCall ==
  ASSUME unfed \in Nat, NEW at, NEW limit \in Nat, NEW next, Call(at, FALSE, limit, next)
  PROVE  unfed' \in Nat /\ unfed' <= limit + unfed /\ stage = at /\ stage' \in next
<1>1. PICK t \in {0, limit} : unfed' = After(unfed, t)
  BY DEF Call
<1>2. t \in Nat /\ t <= limit
  OBVIOUS
<1>3. unfed' \in Nat /\ unfed' <= unfed + t
  BY <1>1, <1>2, WaitAdds
<1> QED BY <1>2, <1>3 DEF Call

(* What the announcer's calls leave.                                       *)
LEMMA AnnounceLeaves ==
  ASSUME phase' = "none", armed' \in BOOLEAN, unfed' \in Nat,
         stage' \in {"announced", "session", "publish", "lost", "rejoin", "again", "reader"},
         stage' = "reader" => unfed' = 0,
         stage' \in Waiting => unfed' < Period,
         stage' = "again" => unfed' <= MqttTime
  PROVE  ServerTypeOK' /\ UnfedInv'
<1>1. ServerTypeOK'
  BY DEF ServerTypeOK, SetupStages, Phases
<1>2. stage' \notin {"begin", "leased", "cache", "announce", "check"}
  OBVIOUS
<1>3. stage' \in Fresh => unfed' = 0
  BY <1>2 DEF Fresh
<1> QED BY <1>1, <1>2, <1>3 DEF UnfedInv

(* The announcer's START() leaves the watchdog time for each of its calls. *)
LEMMA AnnounceTime ==
  ASSUME ServerTypeOK, UnfedInv, WaitsFit, Announce
  PROVE  ServerTypeOK' /\ UnfedInv'
<1>1. phase' = "none" /\ armed' \in BOOLEAN /\ unfed \in Nat
  <2>1. stage \in SetupStages \ {"check"}
    BY DEF Announce, Call, SetupStages
  <2> QED BY <2>1 DEF Announce, Keeps, request, ServerTypeOK, UnfedInv
<1>2. /\ ConnectTime \in Nat /\ MqttTime \in Nat /\ Period \in Nat
      /\ ConnectTime < Period /\ MqttTime < Period
  BY Times DEF WaitsFit
<1>3. CASE stage = "announce" /\ stage' = "announced" /\ UNCHANGED unfed
  <2>1. unfed' = 0
    BY <1>3 DEF UnfedInv, Fresh
  <2> QED BY <1>1, <1>3, <2>1, Times, AnnounceLeaves
<1>4. CASE Call("announce", TRUE, ConnectTime, {"announced", "session"})
  <2>1. unfed' \in Nat /\ unfed' <= ConnectTime /\ stage' \in {"announced", "session"}
    BY <1>1, <1>4, <1>2, FedCall
  <2>2. unfed' < Period
    BY <1>2, <2>1
  <2> QED BY <1>1, <2>1, <2>2, AnnounceLeaves
<1>5. CASE Call("session", TRUE, MqttTime, {"announced", "publish"})
  <2>1. unfed' \in Nat /\ unfed' <= MqttTime /\ stage' \in {"announced", "publish"}
    BY <1>1, <1>5, <1>2, FedCall
  <2>2. unfed' < Period
    BY <1>2, <2>1
  <2> QED BY <1>1, <2>1, <2>2, AnnounceLeaves
<1>6. CASE Call("publish", TRUE, MqttTime, {"announced", "again", "lost"})
  <2>1. unfed' \in Nat /\ unfed' <= MqttTime /\ stage' \in {"announced", "again", "lost"}
    BY <1>1, <1>6, <1>2, FedCall
  <2>2. unfed' < Period
    BY <1>2, <2>1
  <2> QED BY <1>1, <2>1, <2>2, AnnounceLeaves
<1>7. CASE Call("lost", TRUE, ConnectTime, {"announced", "rejoin"})
  <2>1. unfed' \in Nat /\ unfed' <= ConnectTime /\ stage' \in {"announced", "rejoin"}
    BY <1>1, <1>7, <1>2, FedCall
  <2>2. unfed' < Period
    BY <1>2, <2>1
  <2> QED BY <1>1, <2>1, <2>2, AnnounceLeaves
<1>8. CASE Call("rejoin", TRUE, MqttTime, {"announced", "again"})
  <2>1. unfed' \in Nat /\ unfed' <= MqttTime /\ stage' \in {"announced", "again"}
    BY <1>1, <1>8, <1>2, FedCall
  <2>2. unfed' < Period
    BY <1>2, <2>1
  <2> QED BY <1>1, <2>1, <2>2, AnnounceLeaves
<1>9. CASE Call("again", FALSE, MqttTime, {"announced"})
  <2>1. unfed' \in Nat /\ unfed' <= MqttTime + unfed /\ stage = "again" /\ stage' \in {"announced"}
    BY <1>1, <1>9, <1>2, UnfedCall
  <2>2. unfed <= MqttTime
    BY <2>1 DEF UnfedInv
  <2>3. unfed' < Period
    BY <1>1, <2>1, <2>2, Times DEF WaitsFit
  <2> QED BY <1>1, <2>1, <2>3, AnnounceLeaves
<1>10. CASE stage = "announced" /\ stage' = "reader" /\ Feed
  BY <1>1, <1>10, AnnounceLeaves DEF Feed, Waiting
<1> QED BY <1>3, <1>4, <1>5, <1>6, <1>7, <1>8, <1>9, <1>10 DEF Announce

(* Every call of setup() leaves the watchdog where the next one may have   *)
(* it.                                                                     *)
LEMMA SetupTime ==
  ASSUME ServerTypeOK, UnfedInv, WaitsFit, Setup
  PROVE  ServerTypeOK' /\ UnfedInv'
<1> USE Times DEF ServerTypeOK, UnfedInv, SetupStages, InLoop, Phases, Fresh, Waiting, request
<1>1. CASE Begin
  BY <1>1 DEF Begin, Feed, Keeps
<1>2. CASE OpenCache
  <2>1. unfed' \in Nat /\ unfed' <= unfed + CardTime
    BY <1>2, WaitsAdds DEF OpenCache
  <2> QED BY <1>2, <2>1 DEF OpenCache, Keeps, WaitsFit
<1>3. CASE EthernetBegin
  <2>1. unfed' \in Nat
    BY <1>3, WaitAdds DEF EthernetBegin
  <2> QED BY <1>3, <2>1 DEF EthernetBegin
<1>4. CASE Leased
  BY <1>4 DEF Leased, Feed, Keeps
<1>5. CASE Announce
  BY <1>5, AnnounceTime
<1>6. CASE Reader
  BY <1>6 DEF Reader, Feed
<1>7. CASE Halt
  <2>1. unfed' \in Nat
    BY <1>7, WaitAdds DEF Halt, Later
  <2> QED BY <1>7, <2>1 DEF Halt, Keeps
<1>8. CASE CheckStatus
  BY <1>8 DEF CheckStatus, Ask
<1>9. CASE StatusChecked
  BY <1>9 DEF StatusChecked, Return, Returned, Feed
<1> QED BY <1>1, <1>2, <1>3, <1>4, <1>5, <1>6, <1>7, <1>8, <1>9 DEF Setup

(* What a step of loop() leaves to the next: never a place of setup().     *)
Looped == stage \in InLoop /\ stage' \in InLoop /\ phase' \in Phases /\ unfed' \in {0, unfed} /\ armed' = armed

(* A call that is skipped or over.                                         *)
LEMMA GoesLoops ==
  ASSUME phase \in Phases, NEW at \in InLoop, NEW to \in InLoop, Goes(at, to)
  PROVE  Looped
BY DEF Goes, Skips, Return, Stays, request, Looped, Phases

(* A call that asks.                                                       *)
LEMMA AsksLoops ==
  ASSUME NEW at \in InLoop, NEW k, Asks(at, k)
  PROVE  Looped
BY DEF Asks, Ask, Stays, Looped, Phases

(* The end of a use.                                                       *)
LEMMA StoppedLoops ==
  ASSUME phase \in Phases, NEW at \in InLoop, NEW use \in InLoop, NEW to \in InLoop, Stopped(at, use, to)
  PROVE  Looped
<1>1. CASE stage = at /\ phase = "none" /\ Stores /\ UNCHANGED stage
  BY <1>1 DEF Stores, request, Looped
<1>2. CASE Asks(at, "post") \/ Asks(use, "post")
  BY <1>2, AsksLoops
<1>3. CASE Goes(at, use) \/ Goes(use, to)
  BY <1>3, GoesLoops
<1> QED BY <1>1, <1>2, <1>3 DEF Stopped

(* The question for the status.                                            *)
LEMMA EnabledLoops ==
  ASSUME phase \in Phases, NEW at \in InLoop, NEW to \in InLoop, IsEnabled(at, to)
  PROVE  Looped
<1>1. CASE Skips(at, to)
  BY <1>1, GoesLoops DEF Goes
<1>2. CASE Asks(at, "status")
  BY <1>2, AsksLoops
<1>3. CASE stage = at /\ Returned /\ Return /\ stage' = to /\ UNCHANGED <<network, saved, armed, faults, unfed>>
  BY <1>3 DEF Return, Looped, Phases
<1> QED BY <1>1, <1>2, <1>3 DEF IsEnabled

(* loop() never leads back to setup().                                     *)
LEMMA LoopTime ==
  ASSUME ServerTypeOK, UnfedInv, Loop
  PROVE  ServerTypeOK' /\ UnfedInv'
<1>1. phase \in Phases
  BY DEF ServerTypeOK
<1>2. Looped
  <2> USE DEF InLoop
  <2>1. CASE CliStores
    BY <1>1, <2>1 DEF CliStores, Stores, request, Looped
  <2>2. CASE Run
    BY <1>1, <2>2 DEF Run, Stays, Feed, request, Looped
  <2>3. CASE Role
    <3>1. CASE Stopped("poll", "off", "role") \/ Stopped("end", "use", "read")
      BY <1>1, <3>1, StoppedLoops
    <3>2. CASE Skips("role", "deactivate") \/ Skips("role", "read") \/ Skips("activate", "mirror")
      BY <1>1, <3>2, GoesLoops DEF Goes
    <3>3. CASE IsEnabled("deactivate", "end") \/ IsEnabled("activate", "on")
      BY <1>1, <3>3, EnabledLoops
    <3>4. CASE Asks("read", "card") \/ Asks("menu", "post") \/ Asks("on", "post")
      BY <3>4, AsksLoops
    <3>5. CASE Goes("read", "menu") \/ Goes("menu", "activate") \/ Goes("on", "mirror")
      BY <1>1, <3>5, GoesLoops
    <3>6. CASE stage = "menu" /\ Returned /\ Return /\ stage' = "activate"
               /\ UNCHANGED <<network, armed, faults, unfed>>
      BY <3>6 DEF Return, Looped, Phases
    <3> QED BY <2>3, <3>1, <3>2, <3>3, <3>4, <3>5, <3>6 DEF Role, Deactivates, Reads, Menu, Activates
  <2>4. CASE Mirror
    BY <1>1, <2>4, AsksLoops, GoesLoops DEF Mirror
  <2>5. CASE Verify
    BY <2>5 DEF Verify, Ask, Feed, Stays, Looped, Phases
  <2>6. CASE Verified \/ Skips("alive", "loop")
    BY <1>1, <2>6, GoesLoops DEF Verified, Goes
  <2> QED BY <2>1, <2>2, <2>3, <2>4, <2>5, <2>6 DEF Loop
<1>3. stage' \notin SetupStages
  BY <1>2 DEF Looped, InLoop, SetupStages
<1>4. stage' \notin Fresh \cup Waiting \cup {"begin", "leased", "again", "check"}
  BY <1>3 DEF SetupStages, Fresh, Waiting
<1> QED BY <1>2, <1>3, <1>4 DEF ServerTypeOK, UnfedInv, Looped

-----------------------------------------------------------------------------
(* The server, and the watchdog                                            *)

(* Every step keeps the count of the watchdog within its bounds.           *)
LEMMA TimeStep ==
  ASSUME ServerTypeOK, UnfedInv, WaitsFit, [Next]_vars
  PROVE  ServerTypeOK' /\ UnfedInv'
<1>1. CASE Node
  BY <1>1, SetupTime, LoopTime, RequestTime DEF Node
<1>2. CASE Bite
  BY <1>2, Times DEF Bite, Return, ServerTypeOK, UnfedInv, SetupStages, InLoop, Phases, Fresh, Waiting
<1>3. CASE Serve \/ Silence \/ Resume \/ UNCHANGED vars
  <2>1. UNCHANGED <<stage, phase, unfed, armed>>
    BY <1>3 DEF Serve, Arrive, Close, Silence, Resume, vars
  <2> QED BY <2>1 DEF ServerTypeOK, UnfedInv, Bitten
<1> QED BY <1>1, <1>2, <1>3 DEF Next

(* It begins within them.                                                  *)
LEMMA TimeInit == Init => ServerTypeOK /\ UnfedInv
<1> SUFFICES ASSUME Init PROVE ServerTypeOK /\ UnfedInv
  OBVIOUS
<1>1. stage = "begin" /\ phase = "none" /\ unfed = 0 /\ armed = FALSE
  BY DEF Init
<1> QED BY <1>1 DEF ServerTypeOK, UnfedInv, SetupStages, InLoop, Phases, Fresh, Waiting

(* Within them the watchdog bites only where the property allows.          *)
LEMMA TimeFits == ServerTypeOK /\ UnfedInv /\ WaitsFit => StartsInTime
<1> SUFFICES ASSUME ServerTypeOK, UnfedInv, WaitsFit, Bitten, stage \in SetupStages, stage # "halt"
             PROVE  stage = "check" /\ phase \in {"body", "answered"}
  BY DEF StartsInTime
<1>1. unfed \in Nat /\ unfed >= Period /\ Period > 0 /\ armed
  BY Times DEF Bitten, ServerTypeOK
<1>2. stage \notin Fresh \cup Waiting \cup {"begin", "leased", "again"}
  BY <1>1, Times DEF UnfedInv, WaitsFit
<1>3. stage = "check"
  BY <1>2 DEF SetupStages, Fresh, Waiting
<1>4. phase \notin {"none", "connect", "sent", "headers"}
  BY <1>1, <1>3, Times DEF UnfedInv, WaitsFit
<1> QED BY <1>3, <1>4 DEF ServerTypeOK, Phases

(***************************************************************************)
(* Whatever the card, the lease, the broker and the reader do, and however *)
(* the announcer's START() goes, the watchdog resets the node in setup()   *)
(* only while it halts, or once the headers of the answer about the status *)
(* are over, if the waits between two feeds fit into the period: disable() *)
(* covers DHCP, which is longer, and feed() comes before enable().         *)
(***************************************************************************)
THEOREM SetupIsNotBitten ==
  ASSUME WaitsFit
  PROVE  Spec => []StartsInTime
<1>1. Init => ServerTypeOK /\ UnfedInv
  BY TimeInit
<1>2. ServerTypeOK /\ UnfedInv /\ [Next]_vars => ServerTypeOK' /\ UnfedInv'
  BY TimeStep
<1>3. ServerTypeOK /\ UnfedInv => StartsInTime
  BY TimeFits
<1> QED BY <1>1, <1>2, <1>3, PTL DEF Spec

-----------------------------------------------------------------------------
(* The status that is stored                                               *)

(***************************************************************************)
(* The beginning of an answer about the status is either of no use to the  *)
(* parser or all of it.  (This is what AnswerWholeOrNone says of the       *)
(* parser and of each answer of the run.)                                  *)
(***************************************************************************)
StatusUnderstood ==
  \A a \in Answer["status"] : \A n \in 0 .. Len(Text(a)) :
    Heard[a][n].ok => NumericStatus(Heard[a][n].item) = Meaning("status", a)

(***************************************************************************)
(* What setup() and is_enabled() have asked is about the status, so what   *)
(* they get is the answer to that, or that there is none.                  *)
(***************************************************************************)
AskStatus == {"check", "deactivate", "activate"}

AnswerInv ==
  /\ phase # "none" => kind \in Kinds
  /\ phase = "body" => answer \in Answer[kind] /\ got \in 0 .. Len(Text(answer))
  /\ stage \in (SetupStages \ {"check"}) \cup {"loop"} => phase = "none"
  /\ stage \in AskStatus /\ phase # "none" => kind = "status"
  /\ stage \in AskStatus /\ phase = "answered" =>
       result = NoAnswer \/ result = Meaning("status", answer)

(* Every answer has a length.                                              *)
LEMMA LengthIsNat ==
  ASSUME AnswerInv, phase = "body"
  PROVE  Len(Text(answer)) \in Nat
BY ServerAssumption DEF AnswerInv, Answers, Kinds

(* Requests keep to the question, and return what has been understood.     *)
LEMMA RequestAnswer ==
  ASSUME StatusUnderstood, AnswerInv, Request
  PROVE  AnswerInv'
<1> USE DEF AnswerInv
<1>1. UNCHANGED <<stage, kind>> /\ phase # "none"
  BY DEF Request, Connect, Response, SkipHeaders, Finish, Spin, Fails, request
<1>2. CASE Connect
  BY <1>1, <1>2 DEF Connect, Fails
<1>3. CASE Response
  BY <1>1, <1>3 DEF Response, Fails
<1>4. CASE SkipHeaders
  <2>1. CASE Fails
    BY <1>1, <1>4, <2>1 DEF SkipHeaders, Fails
  <2>2. CASE answer' \in Answer[kind] /\ phase' = "body" /\ got' = 0
    <3>1. Len(Text(answer')) \in Nat
      BY <1>1, <2>2, ServerAssumption DEF Answers, Kinds
    <3> QED BY <1>1, <2>2, <3>1
  <2> QED BY <1>4, <2>1, <2>2 DEF SkipHeaders
<1>5. CASE Finish
  <2>1. /\ phase = "body" /\ phase' = "answered" /\ UNCHANGED <<answer, got>>
        /\ result' = Handle(Heard[answer][got])
    BY <1>5 DEF Finish
  <2>2. ASSUME stage \in AskStatus
        PROVE  result' = NoAnswer \/ result' = Meaning("status", answer)
    <3>1. kind = "status" /\ answer \in Answer["status"] /\ got \in 0 .. Len(Text(answer))
      BY <1>1, <2>1, <2>2
    <3>2. CASE ~Heard[answer][got].ok
      BY <2>1, <3>2 DEF Handle
    <3>3. CASE Heard[answer][got].ok
      <4>1. result' = NumericStatus(Heard[answer][got].item)
        BY <2>1, <3>1, <3>3 DEF Handle
      <4> QED BY <3>1, <3>3, <4>1 DEF StatusUnderstood
    <3> QED BY <3>2, <3>3
  <2> QED BY <1>1, <2>1, <2>2
<1>6. CASE Spin
  BY <1>1, <1>6 DEF Spin, request
<1> QED BY <1>2, <1>3, <1>4, <1>5, <1>6 DEF Request

(* What a step of loop() asks, if it asks.                                 *)
Asked ==
  /\ stage' \in InLoop
  /\ \/ phase' = "none"
     \/ phase' = "connect" /\ kind' \in Kinds /\ stage' # "loop" /\ (stage' \in AskStatus => kind' = "status")

(* A call that is skipped or over asks no more.                            *)
LEMMA GoesAsked ==
  ASSUME NEW at, NEW to \in InLoop, Goes(at, to)
  PROVE  Asked
BY DEF Goes, Skips, Return, request, Asked

(* Only is_enabled() asks for the status.                                  *)
LEMMA AsksAsked ==
  ASSUME NEW at \in InLoop \ {"loop"}, NEW k \in {"status", "card", "post", "maintainers"},
         at \in AskStatus => k = "status", Asks(at, k)
  PROVE  Asked
<1>1. phase' = "connect" /\ kind' = k /\ stage' = at
  BY DEF Asks, Ask
<1>2. k \in Kinds
  BY ServerAssumption
<1> QED BY <1>1, <1>2 DEF Asked

(* Every step of loop() asks what it may.                                  *)
LEMMA LoopAsked ==
  ASSUME AnswerInv, Loop
  PROVE  Asked
<1> USE DEF InLoop, AskStatus
<1>1. CASE CliStores \/ Run
  <2>1. phase = "none" /\ UNCHANGED phase /\ stage' \in {"loop", "poll"}
    BY <1>1 DEF CliStores, Stores, Run, request, AnswerInv
  <2> QED BY <2>1 DEF Asked
<1>2. CASE Stopped("poll", "off", "role") \/ Stopped("end", "use", "read")
  <2>1. CASE phase = "none" /\ Stores /\ UNCHANGED stage /\ stage \in {"poll", "end"}
    BY <2>1 DEF Stores, request, Asked
  <2>2. CASE Asks("poll", "post") \/ Asks("off", "post") \/ Asks("end", "post") \/ Asks("use", "post")
    BY <2>2, AsksAsked
  <2>3. CASE Goes("poll", "off") \/ Goes("off", "role") \/ Goes("end", "use") \/ Goes("use", "read")
    BY <2>3, GoesAsked
  <2> QED BY <1>2, <2>1, <2>2, <2>3 DEF Stopped
<1>3. CASE Skips("role", "deactivate") \/ Skips("role", "read") \/ Skips("activate", "mirror")
           \/ Skips("deactivate", "end") \/ Skips("activate", "on") \/ Skips("alive", "loop")
  BY <1>3, GoesAsked DEF Goes
<1>4. CASE IsEnabled("deactivate", "end") \/ IsEnabled("activate", "on")
  <2>1. CASE Asks("deactivate", "status") \/ Asks("activate", "status")
    BY <2>1, AsksAsked
  <2>2. CASE Return /\ stage' \in {"end", "on"}
    BY <2>2 DEF Return, Asked
  <2> QED BY <1>3, <1>4, <2>1, <2>2 DEF IsEnabled
<1>5. CASE Asks("read", "card") \/ Asks("menu", "post") \/ Asks("on", "post") \/ Asks("mirror", "maintainers")
  BY <1>5, AsksAsked
<1>6. CASE Goes("read", "menu") \/ Goes("menu", "activate") \/ Goes("on", "mirror")
           \/ Goes("mirror", "alive") \/ Goes("verify", "loop")
  BY <1>6, GoesAsked
<1>7. CASE Return /\ stage' = "activate"
  BY <1>7 DEF Return, Asked
<1>8. CASE Verify
  <2>1. phase' = "connect" /\ kind' = "card" /\ stage' = "verify"
    BY <1>8 DEF Verify, Ask
  <2>2. "card" \in Kinds
    BY ServerAssumption
  <2> QED BY <2>1, <2>2 DEF Asked
<1>9. Role => Asked
  BY <1>2, <1>3, <1>4, <1>5, <1>6, <1>7 DEF Role, Deactivates, Reads, Menu, Activates
<1>10. Mirror \/ Verified => Asked
  BY <1>5, <1>6 DEF Mirror, Verified
<1> QED BY <1>1, <1>3, <1>8, <1>9, <1>10 DEF Loop

(* Every step keeps to the question.                                       *)
LEMMA AnswerStep ==
  ASSUME StatusUnderstood, AnswerInv, [Next]_vars
  PROVE  AnswerInv'
<1> USE DEF AnswerInv, request, AskStatus
<1>1. CASE Request
  BY <1>1, RequestAnswer
<1>2. CASE Setup
  <2>1. CASE CheckStatus
    BY <2>1, ServerAssumption DEF CheckStatus, Ask, SetupStages
  <2>2. CASE StatusChecked
    BY <2>2 DEF StatusChecked, Return, SetupStages
  <2>3. CASE Begin \/ OpenCache \/ EthernetBegin \/ Leased \/ Announce \/ Reader \/ Halt
    <3>1. phase = "none" /\ UNCHANGED request /\ stage' \in SetupStages \cup {"loop"}
      BY <2>3 DEF Begin, OpenCache, EthernetBegin, Leased, Announce, Call, Reader, Halt, Keeps, SetupStages
    <3> QED BY <3>1 DEF SetupStages
  <2> QED BY <1>2, <2>1, <2>2, <2>3 DEF Setup
<1>3. CASE Loop
  <2>1. Asked
    BY <1>3, LoopAsked
  <2> QED BY <2>1 DEF Asked, SetupStages, InLoop
<1>4. CASE Bite
  BY <1>4 DEF Bite, Return
<1>5. CASE Serve \/ Silence \/ Resume
  <2>1. UNCHANGED <<stage, phase, kind, answer, result>>
    BY <1>5 DEF Serve, Silence, Resume
  <2>2. phase = "body" => got' \in 0 .. Len(Text(answer))
    BY <1>5, LengthIsNat DEF Serve, Arrive, Close, Silence, Resume
  <2> QED BY <2>1, <2>2
<1>6. CASE UNCHANGED vars
  BY <1>6 DEF vars
<1> QED BY <1>1, <1>2, <1>3, <1>4, <1>5, <1>6 DEF Next, Node

-----------------------------------------------------------------------------
(* Where a status comes from                                               *)

Source ==
  \/ stage = "menu"
  \/ Bitten /\ status' = saved
  \/ kind = "status" /\ stage = "check" /\ status' \in {0, 1} /\ status' = Meaning("status", answer).num
  \/ kind = "status" /\ stage \in {"deactivate", "activate"}
     /\ status' \in {StatusBit(Meaning("status", answer).num), StatusBit(-1)}

Accounted ==
  /\ status' # status => Source
  /\ saved' # saved => saved' = status'

(* is_enabled() keeps the bit of what it was told, or of no answer.        *)
LEMMA EnabledAccounted ==
  ASSUME AnswerInv, NEW at \in {"deactivate", "activate"}, NEW to, IsEnabled(at, to)
  PROVE  Accounted
<1>1. CASE Skips(at, to) \/ Asks(at, "status")
  BY <1>1 DEF Skips, Asks, Stays, Accounted
<1>2. CASE stage = at /\ Returned /\ status' = StatusBit(result.num) /\ UNCHANGED saved
  <2>1. kind = "status" /\ (result = NoAnswer \/ result = Meaning("status", answer))
    BY <1>2 DEF Returned, AnswerInv, AskStatus
  <2>2. result.num \in {Meaning("status", answer).num, -1}
    BY <2>1 DEF NoAnswer
  <2>3. status' \in {StatusBit(Meaning("status", answer).num), StatusBit(-1)}
    BY <1>2, <2>2
  <2> QED BY <1>2, <2>1, <2>3 DEF Accounted, Source
<1> QED BY <1>1, <1>2 DEF IsEnabled

(* Every step accounts for the status.                                     *)
LEMMA StatusStep ==
  ASSUME AnswerInv, [Next]_vars
  PROVE  Accounted
<1>1. CASE UNCHANGED <<status, saved>>
  BY <1>1 DEF Accounted
<1>2. CASE Request \/ Serve \/ Silence \/ Resume \/ UNCHANGED vars
  BY <1>1, <1>2 DEF Request, Serve, Silence, Resume, vars
<1>3. CASE Setup
  <2>1. CASE Begin \/ OpenCache \/ EthernetBegin \/ Leased \/ Announce \/ Reader \/ Halt \/ CheckStatus
    BY <1>1, <2>1 DEF Begin, OpenCache, EthernetBegin, Leased, Announce, Reader, Halt, CheckStatus, Keeps
  <2>2. CASE StatusChecked
    <3>1. ASSUME result.num \in {0, 1}, status' = result.num, saved' = result.num
          PROVE  Accounted
      <4>1. kind = "status" /\ result = Meaning("status", answer) /\ stage = "check"
        BY <2>2, <3>1 DEF StatusChecked, Returned, AnswerInv, AskStatus, NoAnswer
      <4> QED BY <3>1, <4>1 DEF Accounted, Source
    <3> QED BY <1>1, <2>2, <3>1 DEF StatusChecked
  <2> QED BY <1>3, <2>1, <2>2 DEF Setup
<1>4. CASE Loop
  <2>1. CASE CliStores
    BY <2>1 DEF CliStores, Stores, Accounted
  <2>2. CASE Stopped("poll", "off", "role") \/ Stopped("end", "use", "read")
    BY <2>2 DEF Stopped, Stores, Asks, Goes, Skips, Stays, Accounted
  <2>3. CASE IsEnabled("deactivate", "end") \/ IsEnabled("activate", "on")
    BY <2>3, EnabledAccounted
  <2>4. CASE Menu
    BY <2>4 DEF Menu, Asks, Goes, Skips, Stays, Accounted, Source
  <2>5. CASE Run \/ Reads \/ Mirror \/ Verify \/ Verified \/ Skips("alive", "loop")
    BY <1>1, <2>5 DEF Run, Reads, Mirror, Verify, Verified, Asks, Goes, Skips, Stays
  <2>6. CASE Skips("role", "deactivate") \/ Skips("activate", "mirror") \/ Asks("on", "post") \/ Goes("on", "mirror")
    BY <1>1, <2>6 DEF Asks, Goes, Skips, Stays
  <2> QED BY <1>4, <2>1, <2>2, <2>3, <2>4, <2>5, <2>6 DEF Loop, Role, Deactivates, Activates
<1>5. CASE Bite
  BY <1>5 DEF Bite, Accounted, Source
<1> QED BY <1>2, <1>3, <1>4, <1>5 DEF Next, Node

(***************************************************************************)
(* Whichever of its requests a pass of loop() makes, and at whichever      *)
(* character a connection ends or falls silent, the status in RAM only     *)
(* changes at the menu, in a reset, in setup() to what the server has said *)
(* in a whole answer to the question for it, and in is_enabled() to the    *)
(* lowest bit of that, or of the -1 that stands for no answer; and what is *)
(* stored in the EEPROM is what is in RAM.                                 *)
(***************************************************************************)
THEOREM StatusHasASource ==
  ASSUME StatusUnderstood
  PROVE  Spec => StatusIsAccountedFor
<1>1. Init => AnswerInv
  BY DEF Init, AnswerInv
<1>2. AnswerInv /\ [Next]_vars => AnswerInv'
  BY AnswerStep
<1>3. AnswerInv /\ [Next]_vars => [Accounted]_vars
  BY StatusStep
<1>4. [][Accounted]_vars <=> StatusIsAccountedFor
  BY PTL DEF Accounted, Source, StatusIsAccountedFor
<1> QED BY <1>1, <1>2, <1>3, <1>4, PTL DEF Spec

=============================================================================
