------------------------------ MODULE MCDeploy ------------------------------
(* Instances of CApi for TLC. *)
EXTENDS CApi

Config(nc, bpc, size) == [nr_channels |-> nc, blocks_per_channel |-> bpc, block_size |-> size]

\* With an int of 11 bits (at most 1023): offsets that fit, offsets that overflow,
\* and one block of sizes at and between the steps of the default class table (two,
\* four and five classes) and one where a step overflows.
BlockSizes == {85, 364, 555, 700}
Deployments == {Config(2, 2, 100), Config(2, 2, 344)} \cup {Config(1, 1, n) : n \in BlockSizes}

Opts(slabs, entries, sizes) ==
    [slab_mem_budget |-> slabs, index_mem_budget |-> entries * IndexEntrySize,
     ops_rate |-> 50, low_min |-> 2, high_max |-> 90, low |-> 7, high |-> 80,
     slab_class_size |-> sizes]

\* Defaults with enough memory, with less than a slab, with too few entries;
\* a class table of the client's.
EnoughMemory == {Opts(1024, 48, <<>>)}
FourOptions == EnoughMemory \cup
               {Opts(100, 48, <<>>), Opts(1024, 1, <<>>), Opts(1024, 48, <<42, 84>>)}
=============================================================================
