------------------------------ MODULE MCDevice ------------------------------
EXTENDS Device
AllRefs == Entries \X Lists
=============================================================================
