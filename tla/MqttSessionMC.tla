--------------------------- MODULE MqttSessionMC ---------------------------
(* Values for the constants of MqttSession.                                *)
EXTENDS MqttSession

SomeCommands == {{}, {"info"}, {"reset"}}
OneCommand == {{"setMode"}}
NoCommand  == {}
Unreadable == {{}}
=============================================================================
