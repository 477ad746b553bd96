------------------------------ MODULE MCOrmCrud ------------------------------
(* OrmCrud with a tree of nodes (a self reference), cards that belong to   *)
(* one node each, and links between nodes as a many-to-many relation has.  *)
EXTENDS OrmCrud

MCTables == {"node", "card", "link"}
MCPks == [node |-> 1 .. 3, card |-> {1}, link |-> {1}]
MCCols == [node |-> {"parent"}, card |-> {"holder"}, link |-> {"left", "right"}]
MCRefTo == [parent |-> "node", holder |-> "node", left |-> "node", right |-> "node"]
MCOnDeletes ==
  {[parent |-> od[1], holder |-> od[2], left |-> "cascade", right |-> "cascade"] :
     od \in {<<"cascade", "set_null">>, <<"cascade", "do_nothing">>, <<"set_null", "set_default">>}}

\* Nothing stored; a path of three nodes with a card at its end; a circle of
\* two with a third node and a link below it.
MCDatabases ==
  {[node |-> <<>>, card |-> <<>>, link |-> <<>>],
   [node |-> <<[parent |-> 0], [parent |-> 1], [parent |-> 2]>>,
    card |-> <<[holder |-> 3]>>, link |-> <<>>],
   [node |-> <<[parent |-> 2], [parent |-> 1], [parent |-> 2]>>,
    card |-> <<>>, link |-> <<[left |-> 3, right |-> 1]>>]}

Node(pk, v) == [pk |-> pk, row |-> [parent |-> v]]
MCBatches ==
  {[on |-> "node", bulk |-> b, rows |-> r] :
     b \in {1, 2}, r \in {<<>>, <<Node(0, 0), Node(0, 0), Node(0, 0)>>,
                          <<Node(1, 0), Node(2, 0), Node(0, 0)>>,
                          <<Node(0, 0), Node(3, 0)>>}}

=============================================================================
