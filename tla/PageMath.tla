------------------------------ MODULE PageMath ------------------------------
(***************************************************************************)
(* The page arithmetic of paginator.Paginate (paginator.go): from a total, *)
(* which is an int64, and the page and page size a remote client asked     *)
(* for, which are ints, to the page shown and its OFFSET.                  *)
(***************************************************************************)
EXTENDS Integers

CONSTANTS
    MaxInt,             \* the largest int (math.MaxInt)
    MaxTotal,           \* the largest int64; an int has at most as many bits
    DefaultPageSize

ASSUME MaxIntAssumption   == MaxInt \in Nat \ {0}
ASSUME MaxTotalAssumption == MaxTotal \in Nat /\ MaxInt <= MaxTotal
ASSUME DefaultAssumption  == DefaultPageSize \in 1..MaxInt

Lesser(x, y)  == IF x <= y THEN x ELSE y
Greater(x, y) == IF x >= y THEN x ELSE y

(* What a product is in an int: bits that do not fit are lost.             *)
IntOf(x) == ((x + MaxInt + 1) % (2 * MaxInt + 2)) - MaxInt - 1

clampPageSize(size, maxSize) ==
    Lesser(IF size <= 0 THEN DefaultPageSize ELSE size, maxSize)

(* Mutant: the page count is only made to fit an int.                      *)
clampPagesToInt(pages, size, maxInt) == Lesser(pages, maxInt)

(* Mutant: a page too few, as the OFFSET of the first page is 0.           *)
clampPagesByOffset(pages, size, maxInt) ==
    LET maxOffsetPages == maxInt \div size
    IN  Lesser(IF pages > maxOffsetPages THEN maxOffsetPages ELSE pages, maxInt)

(* At most so many pages that the OFFSET of the last one fits an int, and  *)
(* at most as many as an int can count.                                    *)
clampPages(pages, size, maxInt) ==
    LET maxOffsetPages == maxInt \div size
    IN  Lesser(IF pages - 1 > maxOffsetPages THEN maxOffsetPages + 1 ELSE pages, maxInt)

(* Rounded up without an addition that could overflow an int64.            *)
calcTotalPage(total, size) ==
    IF total <= 0 THEN 0
    ELSE clampPages((total \div size) + (IF total % size # 0 THEN 1 ELSE 0), size, MaxInt)

(* Mutant: pages are counted from zero.                                    *)
clampPageFromZero(page, totalPage) ==
    IF totalPage = 0 THEN 0 ELSE Lesser(Greater(page, 0), totalPage - 1) + 1

clampPage(page, totalPage) ==
    IF totalPage = 0 THEN 0 ELSE Lesser(Greater(page, 1), totalPage)

offsetOf(page, size) == IntOf((page - 1) * size)
=============================================================================
