------------------------------ MODULE MCMemory ------------------------------
(* Programs of one page, of two pages in one table, of pages in two tables, *)
(* and of two segments that share a page.                                   *)
EXTENDS Memory

ImagesSmall == {<<<<1, 0>>>>, <<<<0, 5>>, <<1, 0>>>>, <<<<1, 0>>, <<1, 0>>>>,
                <<<<1, 0>>, <<1, 1>>, <<2, 0>>>>}

=============================================================================
