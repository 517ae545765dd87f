--------------------------- MODULE MCKowhaiServer ---------------------------
(***************************************************************************)
(* The kowhai server for TLC: a tree with an array of two bytes and an     *)
(* item of two, an event's tree without data and a function's arguments of *)
(* two bytes; jobs of one and two requests that write, call, and go wrong  *)
(* in every way the server tells apart.                                    *)
(***************************************************************************)
EXTENDS KowhaiServer, TLC

Root == <<"teensy">>
Gpio(index) == <<"teensy", IF index = 0 THEN "gpio0" ELSE "gpio1">>
Port == <<"teensy", "port">>
Motor == <<"motor">>
At(node, offset, room) == [node |-> node, offset |-> offset, room |-> room]

\* kowhai_write allows an element of an array as many bytes as the array has
MCItem == [teensy |-> (Root :> At("teensy", 0, 4)) @@ (Gpio(0) :> At("gpio", 0, 2))
                      @@ (Gpio(1) :> At("gpio", 1, 2)) @@ (Port :> At("port", 2, 2)),
           event |-> (<<"event">> :> At("event", 0, 1)),
           motor |-> (Motor :> At("motor", 0, 2))]
MCDataSize == [teensy |-> 4, event |-> 1, motor |-> 2]
MCTreeIn == [motorset |-> "motor", stop |-> "undefined", fail |-> "undefined", astray |-> "nowhere"]
MCIds == DOMAIN MCItem \cup DOMAIN MCTreeIn \cup {"nowhere", "none"}
MCPaths == {Root, Gpio(0), Gpio(1), Port, Motor, <<"event">>, <<"teensy", "none">>, <<>>}

Ask(command, id, path, offset, size) ==
    [command |-> command, id |-> id, path |-> path, offset |-> offset, size |-> size]
W(path, offset, size) == Ask("WRITE_DATA", "teensy", path, offset, size)
E(path, offset, size) == Ask("WRITE_DATA_END", "teensy", path, offset, size)
C(f, offset, size) == Ask("CALL_FUNCTION", f, <<>>, offset, size)

PlainJobs == {<<W(Port, 0, 1), E(Port, 1, 1)>>, <<W(Gpio(0), 0, 1), E(Gpio(0), 1, 1)>>,
              <<E(Gpio(1), 0, 1)>>, <<E(Port, 0, 2)>>}
CallJobs == {<<C("motorset", 0, 2)>>, <<C("motorset", 0, 1), C("motorset", 1, 1)>>,
             <<Ask("WRITE_DATA_END", "motor", Motor, 0, 2)>>}
BadJobs == {<<W(Port, 0, 1), Ask("WRITE_DATA_END", "nowhere", Port, 0, 1)>>, <<W(Port, 1, 2), E(Port, 0, 1)>>,
            <<W(Port, 0, 1), E(Port, 65535, 1)>>, <<W(Gpio(0), 0, 1), E(<<"teensy", "none">>, 0, 1)>>,
            <<W(Port, 0, 9), Ask("other", "none", <<>>, 0, 0)>>}
\* the end of the packet is one that an int cannot hold
WrapJobs == {<<E(Port, IntMax, 1)>>}
RefusedCalls == <<C("none", 0, 0), C("astray", 0, 0), C("motorset", 3, 0), C("motorset", 1, 2),
                  C("stop", 0, 0), C("fail", 0, 0)>>
Reads == <<Ask("GET_VERSION", "none", <<>>, 0, 0), Ask("GET_SYMBOL_LIST", "none", <<>>, 0, 0),
           Ask("READ_DATA", "teensy", Port, 0, 0), Ask("READ_DATA", "event", <<"event">>, 0, 0),
           Ask("READ_DATA", "teensy", <<"teensy", "none">>, 0, 0), Ask("READ_DATA", "none", Port, 0, 0),
           Ask("READ_DESCRIPTOR", "teensy", <<>>, 0, 0), Ask("GET_FUNCTION_DETAILS", "stop", <<>>, 0, 0),
           Ask("GET_FUNCTION_DETAILS", "none", <<>>, 0, 0)>>

MCJobs == PlainJobs \cup WrapJobs \cup BadJobs \cup CallJobs \cup {Reads, RefusedCalls}
=============================================================================
