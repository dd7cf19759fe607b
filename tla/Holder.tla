------------------------------- MODULE Holder -------------------------------
(***************************************************************************)
(* What a program may rely on in an object that holds one value out of     *)
(* several alternatives (expected, optional, variant, any, function): it   *)
(* holds exactly what the last successful operation put there, a copy      *)
(* leaves its source alone, and an operation that throws has not happened. *)
(*                                                                         *)
(* content[x] is [tag, v]: the alternative and the value held.  call is    *)
(* the operation that led here, threw whether it ended by an exception.    *)
(***************************************************************************)
CONSTANTS Gone,          \* the content of an object that does not exist
          MovedFrom(_),  \* what the source of a move may hold afterwards
          Weak(_)        \* calls that promise only valid objects if they throw

VARIABLES content, call, threw

Holders == DOMAIN content

\* The contents that a call which returns may lead to.
Effect(c) ==
  LET Set(f, x, to) == [f EXCEPT ![x] = to]
  IN  CASE c.do = "put"  -> {Set(content, c.x, [tag |-> c.tag, v |-> c.v])}
        [] c.do = "copy" -> {Set(content, c.x, content[c.y])}
        [] c.do = "move" -> {Set(Set(content, c.x, content[c.y]), c.y, left) :
                               left \in MovedFrom(content[c.y])}
        [] c.do = "swap" -> {Set(Set(content, c.y, content[c.x]), c.x, content[c.y])}
        [] c.do = "both" -> {Set(Set(content, c.x, [tag |-> c.tag, v |-> c.v]),
                                 c.y, [tag |-> c.tag, v |-> c.w])}
        [] c.do = "give" -> {Set(Set(content, c.x, [tag |-> c.tag, v |-> c.v]), c.y, left) :
                               left \in MovedFrom(content[c.y])}
        [] c.do = "drop" -> {Set(content, c.x, Gone)}
        [] c.do = "look" -> {content}
        [] c.do = "take" -> {Set(content, c.x, left) : left \in MovedFrom(content[c.x])}

Returns == ~threw' /\ content' \in Effect(call')
Throws ==
  /\ threw'
  /\ \/ content' = content
     \/ /\ Weak(call')
        /\ \A o \in Holders \ {call'.x, call'.y} : content'[o] = content[o]

Init == \A o \in Holders : content[o] = Gone
Next == Returns \/ Throws
Spec == Init /\ [][Next]_<<content, call, threw>>
=============================================================================
