---------------------------- MODULE MCNvmeDevice ----------------------------
EXTENDS NvmeDevice

\* A page holds two units: pointers of one page, of two and of three with a
\* list, not aligned, and a scatter gather list with a bit bucket.
MCPointers ==
  {PRPPointer(1, 0), PRPPointer(2, 1), PRPPointer(4, 1),
   SGLPointer(<<<<DataBlock(1), BitBucket(1)>>>>)}
MCAdminOps ==
  {"identify", "asyncEventReq", "createSQueue", "createCQueue", "create", "delete", "attach", "format"}
\* The health of one namespace.
HealthOnly == {"namespaceLogPage"}
MCLBASize == {1, 2, 4}
MCNewNamespace == {<<2, 1>>, <<2, 2>>, <<2, 4>>}
IO(op, slba, nlb) == [op |-> op, slba |-> slba, nlb |-> nlb]
MCIORequests ==
  {IO("write", 1, 2), IO("read", 0, 1), IO("flush", 0, 0),
   IO("datasetManagement", 1, 1), IO("compare", 0, 1)}
Vector(op, lbas) == [op |-> op, lbas |-> lbas, nlb |-> Len(lbas)]
Range20(op, slba, nlb) == [op |-> op, lbas |-> RangeLBAs(slba, nlb), nlb |-> nlb]
MCRequests20 ==
  {Vector("vectorChunkWrite", <<0, 1>>), Vector("vectorChunkWrite", <<2>>),
   Vector("vectorChunkWrite", <<4, 6>>),
   Vector("vectorChunkReset", <<0>>), Vector("vectorChunkReset", <<0, 4>>),
   Vector("vectorChunkRead", <<0>>), Range20("write", 0, 4), Range20("write", 2, 4),
   Range20("read", 0, 1),
   Range20("datasetManagement", 0, 1), Range20("trimIgnored", 0, 1)}
\* For MCOcssdLong.cfg: one write of more pages than the mask of refusals has bits.
MCLongWrite == {Range20("write", 0, 66)}
MCLongPointers == {SGLPointer(<<<<DataBlock(66)>>>>)}
MCRequests12 ==
  {[op |-> op, nlb |-> 1] : op \in {"deviceIdentification", "getBadBlockTable", "readIgnored"}}
  \cup {[op |-> op, nlb |-> n] : op \in {"physicalBlockErase", "physicalPageWrite",
                                         "physicalPageRead"}, n \in 1 .. 2}
=============================================================================
