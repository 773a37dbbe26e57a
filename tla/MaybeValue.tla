----------------------------- MODULE MaybeValue -----------------------------
(***************************************************************************)
(* What optional<T> promises to its users: each optional holds a value, or *)
(* a value nobody may rely on (Unspecified: moved from, or half assigned), *)
(* or none.  Every operation either takes effect whole or fails, and a     *)
(* failure reaches its operands only, engages no empty optional and makes  *)
(* up no value.                                                            *)
(***************************************************************************)
CONSTANTS Cells, Values, Unspecified, none, absent

VARIABLES val,  \* what each optional holds
          call  \* the call last made and, for a failed one, its operands only

Init == val = [c \in Cells |-> absent] /\ call = <<"none">>

\* What a source is left with when its value was copied, or moved, out of it.
Left(how, v) == IF how = "move" /\ v # none THEN Unspecified ELSE v

Put(c, v) == call' = <<"put", c, v>> /\ val' = [val EXCEPT ![c] = v]

Clear(c) == call' = <<"clear", c>> /\ val[c] # absent /\ val' = [val EXCEPT ![c] = none]

Create(c) == call' = <<"create", c>> /\ val[c] = absent /\ val' = [val EXCEPT ![c] = none]

Discard(c) == call' = <<"discard", c>> /\ val[c] # absent /\ val' = [val EXCEPT ![c] = absent]

Transfer(c, s, how) == /\ call' = <<how, c, s>>
                       /\ val[s] # absent
                       /\ val' = [val EXCEPT ![s] = Left(how, val[s]), ![c] = val[s]]

Exchange(c, s) == /\ call' = <<"swap", c, s>>
                  /\ absent \notin {val[c], val[s]}
                  /\ val' = [val EXCEPT ![c] = val[s], ![s] = val[c]]

\* What a failed operation may leave of an operand that held v, the other w.
Debris(v, w) == IF v \in {none, absent} THEN {v}
                ELSE {v, none, Unspecified} \cup ({w} \ {absent})

Fail(c, s) == /\ call' = <<"fail", c, s>>
              /\ \E v \in Debris(val[c], val[s]), w \in Debris(val[s], val[c]) :
                   val' = [val EXCEPT ![s] = w, ![c] = v]

Next == \E c \in Cells :
          \/ Clear(c) \/ Create(c) \/ Discard(c)
          \/ \E v \in Values : Put(c, v)
          \/ \E s \in Cells : \/ \E how \in {"copy", "move"} : Transfer(c, s, how)
                              \/ Exchange(c, s)
                              \/ Fail(c, s)

Spec == Init /\ [][Next]_<<val, call>>
=============================================================================
