---------------------------- MODULE MCPTSession -----------------------------
EXTENDS PTSession

CONSTANTS p1, p2

\* A kernel with every symbol, and kernels in which some are missing.
MCSymbols ==
  {AllSymbols, AllSymbols \ {"kallsyms_lookup_name"}, AllSymbols \ {"flush_tlb_mm_range"},
   AllSymbols \ {"native_write_cr4"}, AllSymbols \ {"mem", "devmem_is_allowed"}}
=============================================================================
