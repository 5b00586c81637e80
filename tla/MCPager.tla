------------------------------ MODULE MCPager ------------------------------
(* Pager on a small file: two page numbers to a list node.                  *)
EXTENDS Pager
=============================================================================
