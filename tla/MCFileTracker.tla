------------------------------ MODULE MCFileTracker ------------------------------
(* Instances of FileTracker: a directory with two files, and one with subdirectories. *)
EXTENDS FileTracker

TheItem == <<1>>
OnlyTheItem == {<<1>>}

TwoFiles == {<<1>>, <<1, 1>>, <<1, 2>>}
OneFile == [p \in TwoFiles |-> IF p = <<1>> THEN Dir ELSE IF p = <<1, 1>> THEN 2 ELSE Gone]

TwoNames == {<<1>>, <<2>>}
Tree == UNION {{n, n \o <<1>>, n \o <<2>>, n \o <<1, 1>>, n \o <<2, 1>>} : n \in TwoNames}
TreeOnDisk ==
  [p \in Tree |-> IF p \in {<<1>>, <<1, 1>>} THEN Dir ELSE IF p = <<1, 1, 1>> THEN 2 ELSE Gone]

================================================================================
