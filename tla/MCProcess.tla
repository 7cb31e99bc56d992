------------------------------- MODULE MCProcess -------------------------------
(* Process with two Thread objects, a singleton that needs another, which     *)
(* asks for the first when it is destroyed, one that is kept, and three keys: *)
(* a ThreadLocalSingleton, a ThreadLocal of main() whose values use it, and   *)
(* STL, whose values use the second.                                          *)
EXTENDS Process

CONSTANTS o1, o2, stl, log, kept

MCObjects    == {o1, o2}
MCUsers      == {o1, o2, Main}
MCSingletons == {stl, log, kept}
MCNeeds      == [s \in MCSingletons |-> IF s = stl THEN log ELSE NoSingleton]
MCParting    == [s \in MCSingletons |-> IF s = stl THEN log ELSE IF s = log THEN stl ELSE NoSingleton]
MCKept       == {kept}
MCSingles    == {1}
MCUses       == <<0, 1, 2>>
MCWants      == [t \in MCUsers |-> IF t = Main THEN {3} ELSE IF t = o1 THEN {1, 2} ELSE {1, 3}]

=============================================================================
