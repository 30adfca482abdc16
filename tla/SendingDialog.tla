---------------------------- MODULE SendingDialog ----------------------------
(***************************************************************************)
(* A payment to an IP address (CSendingDialog, src/ui.cpp).  The work is   *)
(* done by a thread of its own and then, in the callbacks of two requests, *)
(* by the message thread; the window stays in the user interface's.  They  *)
(* share four plain flags and no lock, so each reads and writes them       *)
(* between any two steps of the other, and the worker's last two accesses  *)
(* before it pays, the store that ends cancelling and the test for a       *)
(* cancel, are to different flags and may come in either order.            *)
(***************************************************************************)
EXTENDS Naturals

VARIABLES fCanCancel, fAbort, fUIDone, fWorkDone,
          work,         \* the next the worker does, as <<part of StartTransfer,
                        \* OnReply2 or OnReply3, step of it>>
          window,       \* "shown" or "closed", or what Close has still to do
          pressed,      \* OnButtonCancel has tested fCanCancel
          told,         \* "Transfer cancelled" was shown
          paid,         \* CommitTransaction has taken the payment
          late,         \* fAbort was set between the worker's last test of it and the
                        \* store that ends cancelling
          destroyed     \* how often the dialog was destroyed

flags == <<fCanCancel, fAbort, fUIDone, fWorkDone>>
dialogVars == <<flags, work, window, pressed, told, paid, late, destroyed>>
-----------------------------------------------------------------------------
(* The parts of the work and what may follow each.  Every part ends with a *)
(* call of Status but those in Silent; in a "reply" the other side is      *)
(* waited for, perhaps for ever.  Any part may fail that "error" follows.  *)
Follows == [begin    |-> {"connect", "error"},      \* enough money?
            connect  |-> {"request", "error"},      \* ConnectNode
            request  |-> {"reply2"},                \* PushRequest checkorder
            reply2   |-> {"accepted"},
            accepted |-> {"pause", "error"},        \* refused, or not to be read
            pause    |-> {"pause", "create"},       \* two seconds to cancel
            create   |-> {"last", "error"},         \* money, CreateTransaction, fee, ConnectNode
            last     |-> {"decide"},
            restored |-> {"send"},
            send     |-> {"commit"},
            commit   |-> {"sent", "error"},         \* CommitTransaction
            sent     |-> {"reply3"},                \* PushRequest submitorder
            reply3   |-> {"done", "error"},
            error    |-> {"end"}, done |-> {"end"}]

Silent == {"request", "reply2", "commit", "reply3"}      \* parts without a Status
Passed(part) == IF part \in {"error", "done"} THEN {"end"} ELSE Follows[part] \ {"error"}

InitDialog ==
    /\ fCanCancel = TRUE /\ fAbort = FALSE
    /\ fUIDone = FALSE /\ fWorkDone = FALSE
    /\ work = <<"begin", "do">> /\ window = "shown" /\ pressed = FALSE
    /\ told = FALSE /\ paid = FALSE /\ late = FALSE /\ destroyed = 0

At(part, step) == work = <<part, step>>
ui == <<window, pressed, told>>

Do ==
    \E part \in DOMAIN Follows \ {"error", "done"} :
       /\ At(part, "do")
       /\ \/ part \notin Silent /\ work' = <<part, "status">>
          \/ part \in Silent /\ \E p \in Follows[part] : work' = <<p, "do">>
          \/ "error" \in Follows[part] /\ part \notin Silent /\ work' = <<"error", "do">>
       /\ paid' = (paid \/ work' = <<"sent", "do">>)
       /\ UNCHANGED <<flags, ui, late, destroyed>>

(* Status: the window has gone, and the dialog is destroyed here; or the   *)
(* user has cancelled; or the work goes on.  What it returns is not looked *)
(* at once the payment is sent.                                            *)
StatusUIDone ==
    \E part \in DOMAIN Follows :
       /\ At(part, "status")
       /\ \/ ~fUIDone /\ work' = <<part, "abort">> /\ UNCHANGED destroyed
          \/ /\ fUIDone /\ destroyed' = destroyed + 1
             /\ work' = <<IF part = "sent" THEN "reply3" ELSE "end", "do">>
       /\ UNCHANGED <<flags, ui, paid, late>>

StatusAbort ==
    \E part \in DOMAIN Follows :
       /\ At(part, "abort")
       /\ \/ fAbort /\ fCanCancel /\ work' = <<part, "cancelled">>
          \/ ~(fAbort /\ fCanCancel) /\ \E p \in Passed(part) : work' = <<p, "do">>
       /\ UNCHANGED <<flags, ui, paid, late, destroyed>>

StatusCancelled ==
    \E part \in DOMAIN Follows :
       /\ At(part, "cancelled")
       /\ fWorkDone' = TRUE
       /\ work' = <<IF part = "sent" THEN "reply3" ELSE "end", "do">>
       /\ UNCHANGED <<fCanCancel, fAbort, fUIDone, ui, paid, late, destroyed>>

(* The last chance: fCanCancel = false and if (fAbort), in either order.   *)
Forbid ==
    /\ \/ At("decide", "do") /\ work' = <<"decide", "test">>
       \/ At("decide", "store") /\ work' = <<"send", "do">>
    /\ fCanCancel' = FALSE
    /\ UNCHANGED <<fAbort, fUIDone, fWorkDone, ui, paid, late, destroyed>>

TestAbort ==
    /\ \/ At("decide", "test") /\ work' = <<IF fAbort THEN "decide" ELSE "send",
                                            IF fAbort THEN "allow" ELSE "do">>
       \/ At("decide", "do") /\ work' = <<"decide", IF fAbort THEN "allow" ELSE "store">>
    /\ UNCHANGED <<flags, ui, paid, late, destroyed>>

\* Mutant of Allow: cancelling stays forbidden.
AllowNot ==
    /\ At("decide", "allow") /\ work' = <<"restored", "status">>
    /\ UNCHANGED <<flags, ui, paid, late, destroyed>>

(* The user has cancelled: cancelling is allowed again, and Status ends it.*)
Allow ==
    /\ At("decide", "allow") /\ work' = <<"restored", "status">>
    /\ fCanCancel' = TRUE
    /\ UNCHANGED <<fAbort, fUIDone, fWorkDone, ui, paid, late, destroyed>>

(* Error, which ends cancelling first, and the end of OnReply3.            *)
Error ==
    /\ At("error", "do") /\ work' = <<"error", "finish">>
    /\ fCanCancel' = FALSE
    /\ UNCHANGED <<fAbort, fUIDone, fWorkDone, ui, paid, late, destroyed>>

Finish ==
    \E part \in {"error", "done"} :
       /\ At(part, IF part = "error" THEN "finish" ELSE "do")
       /\ work' = <<part, "status">>
       /\ fWorkDone' = TRUE
       /\ UNCHANGED <<fCanCancel, fAbort, fUIDone, ui, paid, late, destroyed>>

Work == \/ Do \/ StatusUIDone \/ StatusAbort \/ StatusCancelled
        \/ Forbid \/ TestAbort \/ Allow \/ Error \/ Finish
-----------------------------------------------------------------------------
(* The window: OnButtonCancel, which the close box calls while cancelling  *)
(* is allowed, in two steps.                                               *)
Tested == At("decide", "store")

OnButtonCancel ==
    /\ window = "shown" /\ ~pressed /\ fCanCancel
    /\ pressed' = TRUE
    /\ UNCHANGED <<flags, work, window, told, paid, late, destroyed>>

SetAbort ==
    /\ pressed /\ pressed' = FALSE
    /\ fAbort' = TRUE /\ late' = (late \/ (~fAbort /\ Tested))
    /\ UNCHANGED <<fCanCancel, fUIDone, fWorkDone, work, window, told, paid, destroyed>>

OnPaint ==
    /\ window = "shown" /\ ~pressed
    /\ fAbort /\ fCanCancel
    /\ window' = "close" /\ told' = TRUE
    /\ UNCHANGED <<flags, work, pressed, paid, late, destroyed>>

\* Mutant of Close: the window says that it is done before it looks whether the work is.
CloseFirst ==
    /\ \/ window = "close" /\ window' = "leave" /\ fUIDone' = TRUE /\ UNCHANGED destroyed
       \/ /\ window = "leave" /\ window' = "closed" /\ UNCHANGED fUIDone
          /\ destroyed' = destroyed + (IF fWorkDone THEN 1 ELSE 0)
    /\ UNCHANGED <<fCanCancel, fAbort, fWorkDone, work, pressed, told, paid, late>>

(* Close: the last one out destroys the dialog.                            *)
Close ==
    /\ \/ /\ window = "close" /\ fWorkDone
          /\ window' = "closed" /\ destroyed' = destroyed + 1 /\ UNCHANGED fUIDone
       \/ /\ window = "close" /\ ~fWorkDone
          /\ window' = "leave" /\ UNCHANGED <<fUIDone, destroyed>>
       \/ /\ window = "leave" /\ window' = "closed"
          /\ fUIDone' = TRUE /\ UNCHANGED destroyed
    /\ UNCHANGED <<fCanCancel, fAbort, fWorkDone, work, pressed, told, paid, late>>

(* OnButtonOK, and OnClose when it does not cancel: the modal loop ends.   *)
OnClose ==
    /\ window = "shown" /\ ~pressed
    /\ fWorkDone \/ fAbort \/ ~fCanCancel
    /\ window' = "closed"
    /\ UNCHANGED <<flags, work, pressed, told, paid, late, destroyed>>

DialogNext == \/ Work \/ OnButtonCancel \/ SetAbort \/ OnPaint \/ Close \/ OnClose

DialogSpec == InitDialog /\ [][DialogNext]_dialogVars
-----------------------------------------------------------------------------
(* A user who is told that the transfer is cancelled has not paid, unless  *)
(* fAbort was set while the worker, which had found it clear, had still to *)
(* forbid cancelling: "Last chance to cancel" (ui.cpp:2310).               *)
CancelledNotPaid == told /\ ~late => ~paid

(* The dialog is not destroyed twice, "Last one out turn out the lights"   *)
(* (ui.cpp:2083), and not by a worker whose window is still there.         *)
DestroyedOnce == ~late => /\ destroyed <= 1
                          /\ destroyed = 1 => window = "closed"
=============================================================================
