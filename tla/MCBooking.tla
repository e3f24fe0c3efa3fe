------------------------------- MODULE MCBooking --------------------------------
(***************************************************************************)
(* Booking on small instances. A day has a few ticks; an hour is two.      *)
(***************************************************************************)
EXTENDS Booking, TLC

Row(from, to) == [day |-> "asked", is_working |-> TRUE, slots |-> {[from |-> from, to |-> to]}]

\* A day off, a row of another day, and a slot that ends before it begins.
NoShift == {[Row(4, 9) EXCEPT !.is_working = FALSE],
            [Row(4, 9) EXCEPT !.day = "other"], Row(9, 4)}

\* A shift of five ticks.
OneShift == {Row(4, 9)} \cup NoShift

\* A morning and an afternoon.
SplitShift == {[day |-> "asked", is_working |-> TRUE,
                slots |-> {[from |-> 4, to |-> 6], [from |-> 7, to |-> 10]}]}

TwoSchedules == {OneShift, SplitShift}
AllSchedules == {OneShift, SplitShift, NoShift}

Symmetry == Permutations(Request)
=============================================================================
