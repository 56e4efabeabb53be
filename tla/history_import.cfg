\* Two processes import any scope of three exports, killed and run again at will.
SPECIFICATION Spec
CONSTANTS
    i = i  j = j  k = k  m1 = m1  m2 = m2  t1 = t1  t2 = t2  p = p  q = q
    None = None
    Ids = {i, j, k}
    Months = {m1, m2}
    Talks = {t1, t2}
    Files <- Exports
    Overlap = {j}
    Full = Full
    Sample = Sample
    Scopes = {Full, Sample, m1}
    SampleTalk = t1
    SampleRows = 1
    Importers = {p, q}
    ChunkSize = 1
INVARIANTS CheckpointCovers CountsNeverAhead CompletedMeansAll
SYMMETRY Alike
CHECK_DEADLOCK FALSE
