------------------------------- MODULE MCMqtt -------------------------------
(* The announcer with three messages, of which the second is too long for  *)
(* a packet: START, BELL and RFID by one byte each.                        *)
EXTENDS MqttAnnouncer

Topics == << <<115>>, <<98>>, <<97>> >>

Payloads == << <<1, 1>>, <<2, 2, 2, 2, 2, 2, 2, 2, 2, 2>>, <<3, 3>> >>

=============================================================================
