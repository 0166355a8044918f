------------------------------- MODULE Monitor -------------------------------
(***************************************************************************)
(* What std::condition_variable does to the set of threads blocked in      *)
(* wait().  A blocked thread is a member of the set; a thread that was     *)
(* notified has left the set and returns from wait() only once it owns the *)
(* mutex again.  A notification that finds the set empty is lost.          *)
(***************************************************************************)

(* The sets notify_one() can leave: it releases one thread, nobody says which. *)
NotifyOne(blocked) ==
    {blocked \ {w} : w \in blocked} \cup (IF blocked = {} THEN {{}} ELSE {})

(* The sets left by a notify_one() that the code guards with cond. *)
NotifyOneIf(cond, blocked) == IF cond THEN NotifyOne(blocked) ELSE {blocked}

=============================================================================
