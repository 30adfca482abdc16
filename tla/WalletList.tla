----------------------------- MODULE WalletList -----------------------------
(***************************************************************************)
(* The transaction list of the main window (CMainFrame, src/ui.cpp).  The  *)
(* window's thread fills the list anew when it is asked to, one            *)
(* transaction at a time under a lock it tries for, inserts what           *)
(* vWalletUpdated names when it paints, and then goes over the coinbases   *)
(* if the tip has changed; the threads that change the wallet go on        *)
(* between any two of these steps.                                         *)
(*                                                                         *)
(* A line is the transaction it is for and the key it is sorted by: the    *)
(* height of the block, and the number of the output.  The list is in      *)
(* reverse order of the keys.  All lines are in sight.                     *)
(***************************************************************************)
EXTENDS Reports

CONSTANTS Pages         \* the pages of the notebook that are opened

VARIABLES page,             \* the page shown: which transactions it filters
          lines,            \* the list control
          fRefreshListCtrl, \* the list is to be filled
          filling,          \* what is still to be put into it
          painting,         \* OnPaintListCtrl is past its update of the list
          pindexLastBest    \* the tip when the coinbases were gone over

listVars == <<page, lines, fRefreshListCtrl, filling, painting, pindexLastBest>>

MinDepthShown == 2
Unrecorded == 99            \* sorts above every height (INT_MAX)
-----------------------------------------------------------------------------
(* InsertTransaction: what a transaction is shown as, one line or, for a   *)
(* payment, one for each output to somebody else; with the amount shown.   *)
Net(t) == GetCredit(t) - GetDebit(t)
AllFromMe(t) == \A c \in In[t] : InMine(c)
Kind(t) ==
    LET net == Net(t)
    IN  CASE t \in Coinbases -> "generated"
          [] t \notin Coinbases /\ net > 0 -> "received"
          [] t \notin Coinbases /\ net <= 0 /\ AllFromMe(t) ->
                IF Others(t) = {} THEN "self" ELSE "sent"
          [] OTHER -> "mixed"

Filtered(t) ==
    LET kind == Kind(t)
    IN  \/ kind = "generated" /\ (page # "all" \/ GetDepthInMainChain(t) < MinDepthShown)
        \/ kind = "received" /\ page = "sent"
        \/ kind = "sent" /\ page = "received"

\* The outputs that have a line, or 0 for a line that is of none.
OutsShown(t) == IF Kind(t) = "sent" THEN Others(t) ELSE {0}

\* Mutant of AmountShown: every line has the fee.
AmountShownFee(t, i) ==
    CASE Kind(t) = "sent" -> -(Out[t][i].value + GetDebit(t) - GetValueOut(t))
      [] Kind(t) = "self" -> 0
      [] OTHER            -> Net(t)

(* The fee is shown with the first output.                                 *)
AmountShown(t, i) ==
    CASE Kind(t) = "sent" -> -(Out[t][i].value
                                + IF i = Min(Others(t)) THEN GetDebit(t) - GetValueOut(t) ELSE 0)
      [] Kind(t) = "self" -> 0                        \* left blank
      [] OTHER            -> Net(t)

strSort(t, out) == [tx |-> t, height |-> IF mapWallet[t] = 0 THEN Unrecorded ELSE nHeight[mapWallet[t]],
                    out |-> out]
Above(l, m) == l.height > m.height \/ (l.height = m.height /\ l.out > m.out)
SameKey(l, m) == l.height = m.height /\ l.out = m.out

(* InsertLine: a line with the same transaction is found and reused, the   *)
(* first of them, and moved if its key has changed; a new one is inserted  *)
(* blindly.                                                                *)
GetSortIndex(list, line) == 1 + Cardinality({i \in DOMAIN list : Above(list[i], line)})
Sorted(list, line) == InsertAt(list, GetSortIndex(list, line), line)

LinesIn(list, t) == {i \in DOMAIN list : list[i].tx = t}
Find(list, t) == IF LinesIn(list, t) = {} THEN 0 ELSE Min(LinesIn(list, t))

\* Mutant of InsertLine: a line that is found stays where it is.
InsertLineStaying(list, line, fNew, nIndex) ==
    LET found == IF fNew \/ nIndex # 0 THEN nIndex ELSE Find(list, line.tx)
    IN  IF found = 0 THEN Sorted(list, line) ELSE [list EXCEPT ![found] = line]

InsertLine(list, line, fNew, nIndex) ==
    LET found == IF fNew \/ nIndex # 0 THEN nIndex ELSE Find(list, line.tx)
    IN  IF found = 0 THEN Sorted(list, line)
        ELSE IF SameKey(list[found], line) THEN list ELSE Sorted(RemoveAt(list, found), line)

InsertTransaction(list, t, fNew, nIndex) ==
    LET Put(l, k) == IF k \in OutsShown(t) THEN InsertLine(l, strSort(t, k), fNew, nIndex) ELSE l
        upto[k \in 0 .. Len(Out[t])] == Put(IF k = 0 THEN list ELSE upto[k - 1], k)
    IN  IF Filtered(t) THEN list ELSE upto[Len(Out[t])]
-----------------------------------------------------------------------------
InitList == /\ page = "all" /\ lines = <<>>
            /\ fRefreshListCtrl = TRUE /\ filling = {}
            /\ painting = FALSE /\ pindexLastBest = 0

Busy == filling # {} \/ painting
Tip == IF chain = <<>> THEN 0 ELSE chain[Len(chain)]

OnNotebookPageChanged ==
    /\ ~Busy
    /\ page' \in Pages \ {page}
    /\ fRefreshListCtrl' = TRUE /\ lines' = <<>>
    /\ UNCHANGED <<historyVars, filling, painting, pindexLastBest>>

(* OnIdle, when the list is to be filled: the wallet's transactions are    *)
(* collected, and inserted one after the other.                            *)
OnIdle ==
    /\ ~Busy /\ fRefreshListCtrl
    /\ fRefreshListCtrl' = FALSE
    /\ vWalletUpdated' = {} /\ lines' = <<>>
    /\ filling' = DOMAIN mapWallet
    /\ UNCHANGED <<keys, mapAddressBook, mapWallet, chainVars, page, painting, pindexLastBest>>

\* Mutant of Fill: what was to be shown anew is forgotten at the end, not at the start.
FillForgetting ==
    \E t \in filling :
       /\ filling' = filling \ {t}
       /\ lines' = InsertTransaction(lines, t, TRUE, 0)
       /\ vWalletUpdated' = IF filling = {t} THEN {} ELSE vWalletUpdated
       /\ UNCHANGED <<keys, mapAddressBook, mapWallet, chainVars, page, fRefreshListCtrl,
                      painting, pindexLastBest>>

Fill ==
    \E t \in filling :
       /\ filling' = filling \ {t}
       /\ lines' = InsertTransaction(lines, t, TRUE, 0)
       /\ UNCHANGED <<historyVars, page, fRefreshListCtrl, painting, pindexLastBest>>

(* OnPaintListCtrl: what has changed is inserted or updated, and after     *)
(* that the status column is.                                              *)
Inserted(list, ts) ==
    LET upto[k \in 0 .. Len(ts)] ==
            IF k = 0 THEN list ELSE InsertTransaction(upto[k - 1], ts[k], FALSE, 0)
    IN  upto[Len(ts)]

OnPaintListCtrl ==
    /\ ~Busy
    /\ \E ts \in SetToSeqs(vWalletUpdated \cap DOMAIN mapWallet) : lines' = Inserted(lines, ts)
    /\ vWalletUpdated' = {} /\ painting' = TRUE
    /\ UNCHANGED <<keys, mapAddressBook, mapWallet, chainVars, page, fRefreshListCtrl,
                   filling, pindexLastBest>>

\* RefreshStatusColumn at one row: the list, and the next row.
Restated(list, i) ==
    IF i > Len(list) \/ list[i].tx \notin Coinbases THEN <<list, i + 1>>
    ELSE IF Filtered(list[i].tx) THEN <<RemoveAt(list, i), i>>
    ELSE <<InsertTransaction(list, list[i].tx, FALSE, i), i + 1>>

AllRestated(list) ==
    LET upto[k \in 0 .. Len(list)] ==
            IF k = 0 THEN <<list, 1>> ELSE Restated(upto[k - 1][1], upto[k - 1][2])
    IN  upto[Len(list)][1]

RefreshStatusColumn ==
    /\ painting /\ painting' = FALSE
    /\ lines' = IF pindexLastBest = Tip THEN lines ELSE AllRestated(lines)
    /\ pindexLastBest' = Tip
    /\ UNCHANGED <<historyVars, page, fRefreshListCtrl, filling>>

ListInit == InitHistory /\ InitList
ListNext == \/ OnNotebookPageChanged \/ OnIdle \/ Fill
            \/ OnPaintListCtrl \/ RefreshStatusColumn

\* The window and whatever changes the wallet.
ListStep == ListNext \/ ((HistoryNext \/ setlabel) /\ UNCHANGED listVars)
ListSpec == ListInit /\ [][ListStep]_<<historyVars, listVars>>
-----------------------------------------------------------------------------
ListTypeOK ==
    /\ HistoryTypeOK
    /\ page \in Pages \cup {"all"} /\ fRefreshListCtrl \in BOOLEAN /\ painting \in BOOLEAN
    /\ filling \subseteq DOMAIN mapWallet /\ pindexLastBest \in {0} \cup DOMAIN vtx
    /\ \A i \in DOMAIN lines : lines[i].tx \in DOMAIN mapWallet

Awaited(t) == fRefreshListCtrl \/ t \in filling \/ t \in vWalletUpdated

(* Every transaction of the wallet that is no coinbase and that the page   *)
(* shows has a line, or is waiting to be inserted: the wallet may change   *)
(* while the list is being filled or painted, and nothing is missed.       *)
ListComplete == \A t \in DOMAIN mapWallet \ Coinbases :
                    Awaited(t) \/ Filtered(t) \/ LinesIn(lines, t) # {}

(* The lines are sorted.  No output is shown twice, of a transaction that  *)
(* has at most two to show, and one that has one line has it where its     *)
(* block puts it, unless it is waiting.                                    *)
ListSorted ==
    /\ \A i, j \in DOMAIN lines : i < j => ~Above(lines[j], lines[i])
    /\ \A t \in DOMAIN mapWallet : Cardinality(OutsShown(t)) <= 2 =>
          \A i, j \in LinesIn(lines, t) : i # j => lines[i].out # lines[j].out
    /\ \A t \in DOMAIN mapWallet \ Coinbases : ~Awaited(t) /\ Kind(t) # "sent" =>
          \A i \in LinesIn(lines, t) : lines[i] = strSort(t, 0)

(* What the lines of a transaction show is what the wallet gains or loses  *)
(* by it, but for a payment to oneself, which shows nothing.               *)
ShownAddsUp ==
    \A t \in DOMAIN mapWallet :
        Kind(t) # "self" =>
            SumFunction([i \in OutsShown(t) |-> AmountShown(t, i)]) = Net(t)

(* At any time: the types, and a list that is complete and sorted.         *)
ListInv == ListTypeOK /\ ListComplete /\ ListSorted

(* The amounts that balance, reports and window show, each by code of its  *)
(* own, agree.                                                             *)
AmountsAgree == HistoryAddsUp /\ ListedAddsUp /\ ReceivedAgree /\ ShownAddsUp
=============================================================================
