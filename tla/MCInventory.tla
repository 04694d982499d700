----------------------------- MODULE MCInventory -----------------------------
EXTENDS InventoryStore, TLC

CONSTANTS d1, d2, a1, a2

Interchangeable == Permutations(Device) \cup Permutations(Addr)
=============================================================================
