------------------------------ MODULE MCMatmul ------------------------------
(* Small instances of Matmul for TLC. *)
EXTENDS Matmul

Arm == {"neon", "dot", "i8mm", "apple"}
X86 == {"avx2", "avx512", "vnni"}
All == Arm \union X86 \union {"scalar"}

None == [begin |-> 0, len |-> 0]
Everywhere == [begin |-> 0, len |-> -1]
Acts == {None, Everywhere, [begin |-> 2, len |-> 5]}
Middle == [begin |-> 3, len |-> 4]

\* Rows, columns and threads: a vector or a matrix, with and without a tail.
Vectors1 == {<<1, 3, 1>>, <<1, 9, 2>>}
Shapes == Vectors1 \union {<<3, 9, 2>>, <<5, 6, 1>>, <<5, 9, 2>>}

Base(p, f, s, k) ==
    [platform |-> p, format |-> f, package |-> "rows", m |-> s[1], n |-> s[2], k |-> k,
     threads |-> s[3], act |-> Middle, acc16 |-> FALSE, exact |-> FALSE,
     group |-> k, groups |-> 1, batch |-> 0, sparse |-> FALSE, zeros |-> {}]
Grouped(c, size) == [c EXCEPT !.group = size, !.groups = Chunks(c.k, size)]

DenseCalls ==
    {[Base(p, "fp16", s, 7) EXCEPT !.package = "experts"] : p \in Arm, s \in Shapes} \union
    {[Base(p, f, s, k) EXCEPT !.act = a, !.acc16 = h] :
        p \in All, f \in {"fp32", "fp16"}, s \in Shapes, k \in {7}, a \in Acts, h \in {FALSE}}
    \union {[Base(p, "fp16", s, 7) EXCEPT !.act = a, !.acc16 = TRUE] :
              p \in {"neon", "apple"}, s \in Shapes, a \in Acts}
    \union {[Base("i8mm", "bf16", s, 7) EXCEPT !.act = a] : s \in Shapes, a \in Acts}
Int8Calls ==
    {[Grouped(Base("i8mm", "int8", s, 19), 8) EXCEPT !.package = "experts"] : s \in Shapes} \union
    {Grouped(Base(p, "int8", s, 19), size) : p \in All, s \in Shapes, size \in {6, 8, 16, 19}}
Int4Calls ==
    {[Grouped(Base(p, "int4", s, 32), 8) EXCEPT !.package = g] :
        p \in Arm \ {"neon"}, s \in Shapes, g \in {"rows", "experts", "g32"}}
    \union {[Grouped(Base(p, "int4", s, 32), 16) EXCEPT !.package = g] :
              p \in Arm \ {"neon"}, s \in Shapes, g \in {"rows", "experts", "g128"}}
    \union {[Grouped(Base(p, "int4", s, k), 6) EXCEPT !.package = "rows"] :
              p \in {"neon", "dot", "avx2", "scalar"}, s \in Shapes, k \in {13}}
    \union {[Grouped(Base(p, "int4", s, 32), 8) EXCEPT !.package = "g32"] :
              p \in X86 \union {"scalar"}, s \in Shapes}
    \union {[Grouped(Base(p, "int4", s, 32), 16) EXCEPT !.package = "g128"] :
              p \in X86 \union {"scalar"}, s \in Shapes}
Fp8Shapes == {<<1, 18, 2>>, <<1, 3, 1>>, <<3, 9, 2>>, <<5, 18, 1>>}
Fp8Calls ==
    {Base(p, "fp8", s, 24) : p \in {"dot", "i8mm", "neon", "vnni"}, s \in Fp8Shapes}
    \union {[Base(p, "fp8", s, 24) EXCEPT !.package = "experts"] : p \in {"i8mm"}, s \in Fp8Shapes}
    \union {Base("neon", "fp8", s, 19) : s \in Fp8Shapes}
    \union {[Base("i8mm", "fp8", s, 24) EXCEPT !.exact = TRUE] : s \in Fp8Shapes}
    \union {Base("i8mm", "fp8_f32", s, 19) : s \in Fp8Shapes}
Mxfp4Calls ==
    {[Base("i8mm", "mxfp4", s, 16) EXCEPT !.exact = e] : s \in Shapes, e \in BOOLEAN}

\* A negative length is left out: Nvfp4Matmul says why.
Nvfp4Acts == {None, Middle}
Nvfp4Calls ==
    {[Base(p, "nvfp4", s, 12) EXCEPT !.act = a, !.acc16 = h] :
        p \in {"i8mm", "vnni"}, s \in Shapes, a \in Nvfp4Acts, h \in BOOLEAN}
    \union {[Base(p, "nvfp4", s, 12) EXCEPT !.package = "pairs", !.act = a] :
              p \in {"i8mm", "vnni"}, s \in {<<1, 10, 2>>, <<3, 6, 2>>, <<5, 10, 1>>}, a \in Nvfp4Acts}

GgufCalls ==
    {[Base(p, f, s, IF f = "q8_0" THEN 16 ELSE 64) EXCEPT !.exact = (s[3] = 1)] :
        p \in {"apple", "vnni"}, f \in GgufFormats, s \in {<<1, 3, 1>>, <<1, 5, 2>>, <<3, 5, 2>>}}
    \union {Base("apple", f, <<5, 3, 1>>, 64) : f \in {"q5_k", "iq2_xxs"}}
    \union {Base("apple", "q8_0", <<9, 5, 2>>, 16)}

\* Two values out of 24 that are not zero, or more than the limit of INT8.
SparseCalls ==
    {[Grouped(Base(p, f, s, 24), size)
        EXCEPT !.sparse = TRUE, !.zeros = (0..23) \ live, !.act = None] :
        p \in {"neon", "dot", "avx2"}, f \in {"fp16", "int8"}, s \in {<<1, 3, 1>>, <<1, 10, 2>>},
        size \in {24, 16}, live \in {{5}, {0, 17, 23}}}

BatchCalls ==
    {[Base(p, f, <<1, 9, 2>>, 7) EXCEPT !.batch = 2, !.act = None] :
        p \in {"i8mm", "avx2"}, f \in {"fp32", "fp16", "bf16"}}
    \union {[Grouped(Base("dot", f, <<1, 9, 2>>, 16), 8)
               EXCEPT !.batch = 2, !.package = g, !.act = None] :
              f \in {"int4"}, g \in {"rows", "g32", "experts"}}
    \union {[Grouped(Base("dot", "int4", <<1, 9, 2>>, 16), 16)
               EXCEPT !.batch = 2, !.package = "g128", !.act = None]}
    \union {[Grouped(Base("dot", "int8", <<1, 9, 2>>, 19), 8)
               EXCEPT !.batch = 2, !.act = None]}
    \union {[Base("dot", f, <<1, 9, 2>>, 16) EXCEPT !.batch = 2, !.act = None] :
              f \in {"fp8", "mxfp4", "nvfp4"}}
    \union {[Base("apple", f, <<1, 5, 2>>, 16)
               EXCEPT !.batch = 2, !.package = "experts", !.act = None] :
              f \in {"q8_0"}}
    \union {[Base("dot", "nvfp4", <<1, 10, 2>>, 12)
               EXCEPT !.batch = 2, !.package = "pairs", !.act = None]}

\* Those that may follow another: the ones that use the cache, and one that does not.
Fp8Vector == Base("dot", "fp8", <<1, 3, 1>>, 8)
Repeated == {Fp8Vector, Base("dot", "fp8", <<1, 3, 1>>, 16)}
EveryCall ==
    DenseCalls \union Int8Calls \union Int4Calls \union Fp8Calls \union Mxfp4Calls
      \union Nvfp4Calls \union GgufCalls \union SparseCalls \union BatchCalls \union Repeated
=============================================================================
