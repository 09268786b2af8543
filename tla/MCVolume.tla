------------------------------ MODULE MCVolume ------------------------------
(***************************************************************************)
(* Workloads in five families, each exhaustive in what it is about: how a  *)
(* file lies on the disk and what is read of it; what is in the directory  *)
(* and what is looked up; paths; and geometries, with a heap that runs     *)
(* out, reads that fail, and devices that register in any order.  Sectors  *)
(* have two bytes, a directory entry one, names two letters and an         *)
(* extension of one.                                                       *)
(***************************************************************************)
EXTENDS Volume

MCClusters == 2 .. 6
MCMounts == {<<"A">>, <<"A", "B">>}
MCMountedAt == <<"A">>
Strings(chars, n) == UNION {[1 .. k -> chars] : k \in 0 .. n}

\* One reserved sector, two FATs of six sectors, two directory sectors and
\* five data sectors, as many as the device has.
Bpb == [hidden_sectors |-> 0, rsrvd_cnt |-> 1, num_fats |-> 2, sectors_per_fat |-> 6,
        max_root_dir_entries |-> 4, bytes_per_sector |-> 2, sectors_per_cluster |-> 1]
MCNumBlocks == 1 + 2 * 6 + 2 + 5

Entry(kind, name, cluster, n) == [kind |-> kind, name |-> name, cluster |-> cluster, size |-> n]
A == <<"A", " ", " ">>
AB == <<"A", "B", " ">>
A_B == <<"A", " ", "B">>
AB_A == <<"A", "B", "A">>

EndEntry == Entry("end", <<" ", " ", " ">>, 0, 0)
Ends == <<EndEntry, EndEntry>>

\* What is asked; the last two of geometries and faults, and of a full heap.
Match == Entry("file", A, 4095, 5)
Garbage == {[Bpb EXCEPT !.bytes_per_sector = 0], [Bpb EXCEPT !.rsrvd_cnt = 30],
            [Bpb EXCEPT !.sectors_per_cluster = 0],
            [Bpb EXCEPT !.max_root_dir_entries = 8, !.hidden_sectors = 300]}
Asking(paths, requests) ==
    [devices |-> {"fd0"}, paths |-> paths, requests |-> requests,
     stack |-> {Ends}, garbage |-> {Bpb}, unmount |-> FALSE]
MCInputs ==
    [reads   |-> Asking({<<"/", "A", "/", "A">>}, (0 .. 7) \X (0 .. 7)),
     lookups |-> Asking({<<"/", "A", "/">> \o s : s \in Strings({"A", "B", "."}, 4)}, {}),
     far     |-> Asking({<<"/", "A", "/">> \o s : s \in {<<"A">>, <<"B">>, <<"A", "B", ".", "A">>}}, {}),
     paths   |-> Asking(Strings({"A", "B", "/"}, 7), {}),
     faulty  |-> [Asking({<<"/", "A", "/", "A">>}, {<<0, 3>>, <<0, 0>>, <<2, 1>>, <<2, 15>>})
                  EXCEPT !.stack = {Ends, <<Match, Match>>}, !.garbage = Garbage],
     heap    |-> [Asking({<<"/", "A", "/", "A">>}, {<<0, 2>>})
                  EXCEPT !.devices = {"fd0", "hd0", "hd1"}, !.unmount = TRUE]]

Workload(kind, bpb, dir, chain, no_memory, failing) ==
    [inputs |-> kind, disk |-> [bpb |-> bpb, dir |-> dir, chain |-> chain],
     oom |-> no_memory, faults |-> failing]

\* Every way a file of up to three clusters can lie on five, every request.
Chains == {ch \in Strings(MCClusters, 3) : ch # << >> /\ IsInjective(ch)}
Reads == {Workload("reads", Bpb, <<Entry("file", A, ch[1], (Len(ch) - 1) * 2 + n)>>, ch, FALSE, 0) :
            ch \in Chains, n \in 1 .. 2}

\* Directories of up to two entries with four names, of three with two
\* names; the former are looked up under every string of up to four.
Entries(names) == {Entry(k, m, 2, 1) : k \in {"deleted", "volume", "file"}, m \in names}
                    \cup {Entry("directory", A, 3, 0), EndEntry}
Lookups == {Workload("lookups", Bpb, dir, <<2>>, FALSE, 0) :
                dir \in Strings(Entries({A, AB, A_B, AB_A}), 2)}
           \cup {Workload("far", Bpb, dir, <<2>>, FALSE, 0) : dir \in [1 .. 3 -> Entries({A, AB_A})]}

\* Every path of up to seven characters, with buffers of six.
PathSplits == {Workload("paths", Bpb, <<Entry("file", A, 2, 1)>>, <<2>>, FALSE, 0)}

\* Geometries, a heap that runs out, a read that fails.
Bpbs == {[Bpb EXCEPT !.hidden_sectors = h, !.rsrvd_cnt = r, !.num_fats = f,
                     !.max_root_dir_entries = e, !.sectors_per_cluster = s] :
            h \in {0, 2, 257}, r \in {1, 2}, f \in {1, 2}, e \in {2, 3, 4}, s \in {1, 2}}
Full == <<Entry("volume", A, 0, 0), Entry("file", AB, 4, 2), Entry("file", A, 2, 3)>>
Faulty == {Workload("faulty", b, Full, <<2, 3>>, FALSE, f) : b \in Bpbs, f \in 0 .. 1}
           \cup {Workload("heap", Bpb, Full, <<2, 3>>, TRUE, 1)}

MCWorkloads == Reads \cup Lookups \cup PathSplits \cup Faulty
=============================================================================
