---------------------------- MODULE NoobsCallStack ----------------------------
(***************************************************************************)
(* Nested calls in the RTL. The hardware keeps return addresses as pairs   *)
(* of bytes in a 256-byte page of the data memory, addressed by an 8-bit   *)
(* stack pointer; frames is what the program means by them, a stack of     *)
(* return addresses without bound.                                         *)
(***************************************************************************)
EXTENDS NoobsRtl

VARIABLE frames       (* history: the return addresses, innermost first      *)

stackVars == <<rtlVars, frames>>

\* The page has room for as many addresses; older ones are overwritten.
ROOM == 128

StackInit == Init /\ frames = <<>>

\* A taken CALL is redirecting the fetch: PC is the address behind it.
Calling == execute_en /\ ex.ctrl = "CALL"

\* The two bytes of a return address have been popped: fetching goes on there.
Resuming == ret_addr_en

\* The program sets the stack pointer, to what is a stack of its own.
StackMoved == Retiring({"ST"}) /\ ex.addr = 6

Newest(s) == IF Len(s) > ROOM THEN SubSeq(s, 1, ROOM) ELSE s

StackNext ==
  /\ Next
  /\ frames' = CASE StackMoved -> <<>>
                 [] ~StackMoved /\ Calling -> Newest(<<PC>> \o frames)
                 [] ~StackMoved /\ ~Calling /\ Resuming /\ frames # <<>> -> Tail(frames)
                 [] OTHER -> frames

StackSpec == StackInit /\ [][StackNext]_stackVars

FairStackSpec == StackSpec /\ WF_stackVars(StackNext)

\* RET goes back behind the call that is being returned from, however deeply
\* calls are nested and however closely CALL and RET follow each other, up to
\* what the page holds. The pair that ends with the last byte of the page is
\* read back from the page below: a return from there goes wrong.
ReturnsMatch ==
  [][Resuming /\ frames # <<>> /\ sp_lsb < 254 => PC' = Head(frames)]_stackVars

=============================================================================
