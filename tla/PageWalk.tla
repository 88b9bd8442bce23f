------------------------------ MODULE PageWalk ------------------------------
(***************************************************************************)
(* A client that turns pages: it asks for any page number and page size an *)
(* int can hold, then for the page after the one it was answered with.     *)
(* The total is what the database counted or the caller passed to          *)
(* WithTotal, so it may change between requests.                           *)
(***************************************************************************)
EXTENDS PageMath

CONSTANTS
    MaxPageSizes        \* arguments of WithMaxPageSize, which refuses n <= 0

ASSUME MaxPageSizesAssumption == MaxPageSizes \subseteq 1..MaxInt

VARIABLES
    maxPageSize,
    answered,           \* whether a request was answered
    total, pageSize, totalPage, page,   \* the last Page returned
    offset              \* the OFFSET of its data query

vars == <<maxPageSize, answered, total, pageSize, totalPage, page, offset>>

Init ==
    /\ maxPageSize \in MaxPageSizes
    /\ answered = FALSE
    /\ total = 0 /\ pageSize = 0 /\ totalPage = 0 /\ page = 0 /\ offset = 0

(* Paginate: without rows there is no data query.                          *)
Paginate(askedPage, askedSize, n) ==
    /\ answered' = TRUE
    /\ total' = n
    /\ pageSize' = clampPageSize(askedSize, maxPageSize)
    /\ totalPage' = calcTotalPage(n, pageSize')
    /\ page' = clampPage(askedPage, totalPage')
    /\ offset' = IF n = 0 THEN 0 ELSE offsetOf(page', pageSize')
    /\ UNCHANGED maxPageSize

Ints == (-MaxInt - 1)..MaxInt

FirstPage ==
    /\ ~answered
    /\ \E p \in Ints, s \in Ints, n \in 0..MaxTotal : Paginate(p, s, n)

NextPage ==
    /\ answered /\ page < MaxInt
    /\ \E n \in {total - 1, total, total + 1} \cap 0..MaxTotal :
        Paginate(page + 1, pageSize, n)

Next == FirstPage \/ NextPage

Spec == Init /\ [][Next]_vars

-----------------------------------------------------------------------------
(* Properties.                                                             *)

(* The types.                                                              *)
TypeOK ==
    /\ maxPageSize \in MaxPageSizes
    /\ answered \in BOOLEAN
    /\ total \in 0..MaxTotal
    /\ pageSize \in 0..MaxInt /\ totalPage \in 0..MaxInt
    /\ page \in Ints /\ offset \in Ints

(* The page size a remote client can cause is bounded by the option.       *)
SizeBounded == answered => pageSize \in 1..maxPageSize

(* The answered page exists, and its OFFSET is the exact product: it does  *)
(* not overflow, is not negative, and leaves at least one counted row to   *)
(* show (clampPages, clampPage, calcTotalPage).                            *)
PageHasRows ==
    answered /\ total > 0 =>
        /\ page \in 1..totalPage
        /\ offset = (page - 1) * pageSize
        /\ offset < total /\ offset <= MaxInt

(* The pages reach the last counted row, unless the OFFSET of one more     *)
(* page or its number would not fit an int (calcTotalPage, clampPages).    *)
PagesReachEnd ==
    answered /\ total > totalPage * pageSize =>
        totalPage = MaxInt \/ totalPage * pageSize > MaxInt

(* While the total stays, the next page begins where the last one ended,   *)
(* and after the last page the client is shown the last page again         *)
(* (clampPage).                                                            *)
PagesAdjoin ==
    [][answered /\ total' = total =>
        \/ page' = page + 1 /\ offset' = offset + pageSize
        \/ page = totalPage /\ page' = page /\ offset' = offset]_vars
=============================================================================
