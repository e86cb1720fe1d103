CONSTANTS
    Base = 4
    Tags = {0, 3}
    Ints = {0, 4, 60000}
    Octets <- MCOctets
    MaxItems = 4
    MaxDepth = 2
    Payloads <- MCPayloads
    Requests <- MCRequests
    Answers <- MCAnswers
    Packets <- MCPackets
    Encrypt <- MCEncrypt
    Size = 3
    Epoch = 100
    Certificates <- MCCertificates
    mbin <- MCmbin
    nbin <- MCnbin
    Transcripts <- MCTranscripts
SPECIFICATION Spec
INVARIANTS CertificateReadsBack TranscriptsAgree SealConforms OpenRefusesChanges RequestsReadBack AnswersReadBack DecodesWhatWasWritten QrRoundTrip ManualCodeAgreesWithQr
CHECK_DEADLOCK FALSE
