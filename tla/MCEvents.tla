------------------------------- MODULE MCEvents -------------------------------
(* Events with a log of three entries, and events of every way of handling.  *)
EXTENDS Events

Reported(general, specific, partition, source_type, extra) ==
  [general |-> general, specific |-> specific, partition |-> partition,
   source_type |-> source_type, source |-> 7, extra |-> extra]

AcFails == {Reported("SYSTEM_TROUBLE", MAIN_AC_FAIL, 0, "BUS_DEVICE", 0),
            Reported("SYSTEM_TROUBLE_RESTORAL", MAIN_AC_FAIL, 0, "BUS_DEVICE", 0)}
Alarms == {Reported("ALARM", 1, 1, "ZONE", 0), Reported("ALARM_RESTORAL", 1, 1, "ZONE", 0)}
\* A type that has no entry, and a partition that is not there.
Unlisted == {Reported("FIRE_TROUBLE", 20, 1, "ZONE", 0), Reported("FIRE_TROUBLE", 1, 9, "ZONE", 0)}
Outputs == {Reported("SYSTEM_EVENT", OUTPUT_ON, 1, "SYSTEM", 1),
            Reported("SYSTEM_EVENT", OUTPUT_OFF, 1, "SYSTEM", 1)}
Others == {Reported("SYSTEM_EVENT", 0, 1, "SYSTEM", 0),
           Reported("SYSTEM_CONFIG_CHANGE", 0, 1, "SYSTEM", 0),
           Reported("SYSTEM_CONFIG_CHANGE", 1, 1, "SYSTEM", 0)}

MCPlans == {[events |-> AcFails \union Alarms, things |-> {}],
            [events |-> Outputs \union Others, things |-> {"output"}],
            [events |-> {}, things |-> {"light", "refresh"}],
            [events |-> Unlisted, things |-> {"zone", "keyfob", "refresh"}]}
=============================================================================
