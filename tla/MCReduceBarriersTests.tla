------------------------ MODULE MCReduceBarriersTests ------------------------
(* The functions of tests/lit/VPUX/dialect/VPUIP/passes/                   *)
(* reduce_exceeding_active_count_barriers.mlir: all tasks are DMAs, two    *)
(* physical barriers.  Every test gives the barriers that the tasks wait   *)
(* for and update before the pass, and those that the test expects after.  *)
(* They are checked together with the functions of MCReduceBarriers.       *)
EXTENDS MCReduceBarriers

Ends(m, waits, updates) ==
    LET shifted(s) == [t \in 0..(Len(s) - 1) |-> s[t + 1]]
    IN  Build(Len(waits), m, shifted(waits), shifted(updates))

Test(before, after) ==
    LET all(x) == [t \in TaskOf(before) |-> x]
    IN  [ after |-> after,
          function |-> [maps |-> before, executor |-> all("DMA_NN"),
                        ports |-> all({0}), channel |-> all(0), count |-> all(1)] ]

ParallelUpdateBarriers ==
    Test(Ends(5, <<{}, {0}, {1}, {2}, {3}, {4}>>,
                 <<{0}, {1, 2}, {3}, {4}, {}, {}>>),
         Ends(5, <<{}, {0}, {1}, {2}, {3}, {4}>>,
                 <<{0}, {1}, {2}, {3}, {4}, {}>>))

MergeParallelOutputPathsFromSharedBarrier ==
    Test(Ends(4, <<{}, {0}, {1}, {1}, {2}, {3}>>,
                 <<{0}, {1}, {2}, {3}, {}, {}>>),
         Ends(5, <<{}, {0}, {1}, {2}, {3}, {4}>>,
                 <<{0}, {1}, {2}, {3}, {4}, {}>>))

LinearizeBarrierWithMultipleConsumers ==
    Test(Ends(4, <<{}, {0}, {1}, {1}, {1}, {1}, {2}, {3}>>,
                 <<{0}, {1}, {2}, {2}, {3}, {3}, {}, {}>>),
         Ends(5, <<{}, {0}, {1}, {1}, {2}, {2}, {3}, {4}>>,
                 <<{0}, {1}, {2}, {2}, {3}, {3}, {4}, {}>>))

LinearizeBarrierWithMultipleConsumersAndProducers ==
    Test(Ends(4, <<{}, {0}, {1}, {1}, {1}, {1}, {2}, {2}, {3}, {3}>>,
                 <<{0}, {1}, {2}, {2}, {3}, {3}, {}, {}, {}, {}>>),
         Ends(5, <<{}, {0}, {1}, {1}, {2}, {2}, {3}, {3}, {4}, {4}>>,
                 <<{0}, {1}, {2}, {2}, {3}, {3}, {4}, {4}, {}, {}>>))

LinearizeBarriersWithMultipleConsumersVariousOrder ==
    Test(Ends(4, <<{}, {0}, {1}, {1}, {1}, {1}, {2}, {3}>>,
                 <<{0}, {1}, {2}, {3}, {3}, {2}, {}, {}>>),
         Ends(6, <<{}, {0}, {1}, {2}, {2}, {3}, {4}, {5}>>,
                 <<{0}, {1}, {2}, {3}, {3}, {4}, {5}, {}>>))

ParallelWaitBarriers ==
    Test(Ends(5, <<{}, {}, {0}, {1}, {2, 3}, {4}>>,
                 <<{0}, {1}, {2}, {3}, {4}, {}>>),
         Ends(5, <<{}, {0}, {1}, {2}, {3}, {4}>>,
                 <<{0}, {1}, {2}, {3}, {4}, {}>>))

MergeParallelInputPathsFromSharedBarrier ==
    Test(Ends(4, <<{}, {}, {0}, {1}, {2}, {3}>>,
                 <<{0}, {1}, {2}, {2}, {3}, {}>>),
         Ends(5, <<{}, {0}, {1}, {2}, {3}, {4}>>,
                 <<{0}, {1}, {2}, {3}, {4}, {}>>))

LinearizeBarriersWithMultiple ==
    Test(Ends(4, <<{}, {}, {}, {}, {0}, {1}, {2}, {3}>>,
                 <<{0}, {0}, {1}, {1}, {2}, {2}, {3}, {}>>),
         Ends(5, <<{}, {}, {0}, {0}, {1}, {2}, {3}, {4}>>,
                 <<{0}, {0}, {1}, {1}, {2}, {3}, {4}, {}>>))

ExtremeLinearization ==
    Test(Ends(4, <<{}, {}, {}, {}, {0}, {1}, {2}, {3}>>,
                 <<{0}, {1}, {1}, {0}, {2}, {2}, {3}, {}>>),
         Ends(6, <<{}, {0}, {0}, {1}, {2}, {3}, {4}, {5}>>,
                 <<{0}, {1}, {1}, {2}, {3}, {4}, {5}, {}>>))

TwoPaths ==
    Test(Ends(4, <<{}, {}, {0}, {1}, {2}, {3}>>,
                 <<{0}, {1}, {2}, {2}, {3}, {}>>),
         Ends(5, <<{}, {0}, {1}, {2}, {3}, {4}>>,
                 <<{0}, {1}, {2}, {3}, {4}, {}>>))

ThreeOutputPathsFromSharedBarrier ==
    Test(Ends(5, <<{}, {0}, {1}, {1}, {1}, {2}, {3}, {4}>>,
                 <<{0}, {1}, {2}, {3}, {4}, {}, {}, {}>>),
         Ends(7, <<{}, {0}, {1}, {2}, {3}, {4}, {5}, {6}>>,
                 <<{0}, {1}, {2}, {3}, {4}, {5}, {6}, {}>>))

Tests ==
    { ParallelUpdateBarriers,
      MergeParallelOutputPathsFromSharedBarrier,
      LinearizeBarrierWithMultipleConsumers,
      LinearizeBarrierWithMultipleConsumersAndProducers,
      LinearizeBarriersWithMultipleConsumersVariousOrder,
      ParallelWaitBarriers,
      MergeParallelInputPathsFromSharedBarrier,
      LinearizeBarriersWithMultiple,
      ExtremeLinearization,
      TwoPaths,
      ThreeOutputPathsFromSharedBarrier }

MCFunctionsAndTests == MCFunctions \cup {test.function : test \in Tests}

(* Every test passes: the pass does not give up on its function, and the   *)
(* barriers are the ones that its CHECK lines name.                        *)
TestsPass ==
    \A test \in Tests : test.function = input =>
        /\ stage # "thrown"
        /\ stage = "assign" => test.after = info
=============================================================================
