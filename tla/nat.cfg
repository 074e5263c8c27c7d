SPECIFICATION Spec
CONSTANTS
    M <- W
    Guest <- G
    Metadata <- Meta
    Hosts <- H
    Peers <- P
    None = None
INVARIANT TypeOK
INVARIANT AnswersComeBack
PROPERTY ChecksumsKept
